---- MODULE Spec2Model ----
(***************************************************************************)
(* CT phantom QA: the case/job lifecycle of the analysis server            *)
(* (fastapi_server/main.py, fastapi_server/worker.py) and the mask         *)
(* transfer of the processing pipeline (python_app/ctqa.py).               *)
(*                                                                         *)
(* Spec      the lifecycle: HTTP handlers, the RQ queue, worker runs.      *)
(* SpecXfer  CTQA.transfer_masks as a function of its inputs.              *)
(* SpecCollect  collect_analysis_results over the section CSVs.            *)
(* SpecReport   CTQA.report: the HTML report and the results JSON.         *)
(* SpecInu      CTQA.calc_integral_non_uniformity in binary floats.        *)
(* SpecStat     calc_image_min_max_mean_std_3d_f over a masked volume.     *)
(* SpecMtf      CTQA.calc_relative_mtf in binary floats.                   *)
(* SpecForms    the forms backend: upsert, submit, set_baseline.           *)
(* SpecDist     CTQA.measure_dist: the four distances around the loop.     *)
(* SpecCom      CTQA.center_of_mass: the thresholded centroid of a crop.   *)
(* SpecJudge    one section as the JSON document and the report judge it.  *)
(* SpecMove     move_form of the forms backend, one action per await.      *)
(* SpecCases    create_case and upload_file_to_case over several cases.    *)
(***************************************************************************)
EXTENDS Integers, Sequences, FiniteSets, TLC

VARIABLES
    clock,      \* the wall clock, in seconds, as create_case last read it: the case
                \* id is derived from it
    queueUp,    \* job_queue is not None (the Redis ping at import succeeded)
    devDirs,    \* device ids whose directory DATA_DIR/<id>/cases exists on disk
    inputsDir,  \* cases <<device, case id>> whose 0.inputs directory exists
    files,      \* per case: the file names stored in 0.inputs
    ctMhd,      \* cases whose CT.mhd exists
    reports,    \* cases whose 3.analysis holds report.html and analysis_results.json
    log,        \* per case: the messages in worker.log
    jobs,       \* the jobs collection, in insertion order
    queue,      \* the RQ queue: the enqueued calls, oldest first
    sync,       \* start_case_analysis handlers that have written queued and go on
                \* in the synchronous fallback
    raised,     \* <<context, case>> of the calls whose exception reached the invoker:
                \* RQ's failed registry for "queue", the exit of worker.py for "cli"
    wk,         \* the invocations of process_ctqa_analysis, one slot per process
    runs,       \* number of invocations started so far
    resp,       \* the last HTTP response
    xin,        \* the arguments of the function a function specification applies
    xout,       \* its result
    forms,      \* the forms collection of the backend: per form id, its document
    submissions,\* the submissions collection: per document id, its document
    reqs,       \* the set_baseline requests between two of their database calls
    bresp       \* the last response of the backend

vars == <<clock, queueUp, devDirs, inputsDir, files, ctMhd, reports, log, jobs, queue,
          sync, raised, wk, runs, resp, xin, xout, forms, submissions, reqs, bresp>>

dbVars == <<forms, submissions, reqs, bresp>>

lifeVars == <<clock, queueUp, devDirs, inputsDir, files, ctMhd, reports, log, jobs, queue,
              sync, raised, wk, runs, resp>>

----------------------------------------------------------------------------
(* Bounds *)

MaxClock == 2
MaxJobs == 1
MaxQueue == 1
MaxFileCount == 1
MaxRuns == 2
MaxMasks == 2
Precision == 4

----------------------------------------------------------------------------
(* Images: a 1-D voxel grid. geom = [spacing, origin, size]; voxel j (1-based) *)
(* sits at physical position origin + (j-1)*spacing.                          *)

Geoms ==
    { [spacing |-> 1, origin |-> 0, size |-> 3],
      [spacing |-> 1, origin |-> 1, size |-> 3],
      [spacing |-> 2, origin |-> 0, size |-> 3],
      [spacing |-> 1, origin |-> 0, size |-> 2] }

\* the grids of the baseline masks
MaskGeoms ==
    { [spacing |-> 1, origin |-> 0, size |-> 3],
      [spacing |-> 1, origin |-> 1, size |-> 3] }

NoImage == [geom |-> [spacing |-> 0, origin |-> 0, size |-> 0], vox |-> <<>>]

\* the images on the grids gs with voxel values in vals
Images(gs, vals) ==
    UNION { { [geom |-> g, vox |-> v] : v \in [1..g.size -> vals] } : g \in gs }

\* the rigid transforms: a translation by t (0 is the identity)
Shifts == {0, 1}

----------------------------------------------------------------------------
(* CTQA.transfer_masks (ctqa.py 219-382) and apply_transform              *)
(* (registration.py 290-384)                                               *)

\* a comparison that accepts every pair of geometries
GeomNeverDiffers(a, b) == FALSE

\* ctqa.py 273, 330, 371: the tuples of spacing, origin and size are compared
GeomDiffers(a, b) ==
    a.spacing # b.spacing \/ a.origin # b.origin \/ a.size # b.size

\* a check that looks at the spacing only
FirstMismatchBySpacing(masks) ==
    LET bad == { i \in 1..Len(masks) : masks[i].geom.spacing # masks[1].geom.spacing }
    IN  IF bad = {} THEN 0 ELSE CHOOSE i \in bad : \A k \in bad : i <= k

\* ctqa.py 268-279: the first mask (1-based) whose geometry differs from the
\* reference mask masks[1]; 0 if none
FirstMismatch(masks) ==
    LET bad == { i \in 1..Len(masks) : GeomDiffers(masks[i].geom, masks[1].geom) }
    IN  IF bad = {} THEN 0 ELSE CHOOSE i \in bad : \A k \in bad : i <= k

\* ctqa.py 294: mask_array > 0.5
InMask(v) == 2 * v > 1

\* a composite in which the earliest mask keeps its voxels
composite_first_wins(masks, k) ==
    [j \in 1..masks[1].geom.size |->
        LET hit == { i \in 1..k : InMask(masks[i].vox[j]) }
        IN  IF hit = {} THEN 0 ELSE CHOOSE i \in hit : \A m \in hit : i <= m]

\* ctqa.py 291-294: zeros, then for i = 1..k in order: composite[mask_i > 0.5] = i
RECURSIVE composite_array(_, _)
composite_array(masks, k) ==
    IF k = 0
    THEN [j \in 1..masks[1].geom.size |-> 0]
    ELSE LET prev == composite_array(masks, k - 1)
         IN  [j \in 1..masks[1].geom.size |->
                 IF InMask(masks[k].vox[j]) THEN k ELSE prev[j]]

\* registration.py 368-378: ResampleImageFilter with the reference image's grid,
\* nearest-neighbour interpolation, default pixel value 0 and the transform t:
\* output voxel j takes the input voxel nearest to T(position of j), 0 outside
Resample(img, t, ref) ==
    [geom |-> ref,
     vox  |-> [j \in 1..ref.size |->
                 LET q   == ref.origin + (j - 1) * ref.spacing + t
                     idx == (2 * (q - img.geom.origin) + img.geom.spacing)
                                \div (2 * img.geom.spacing)
                 IN  IF idx >= 0 /\ idx < img.geom.size THEN img.vox[idx + 1] ELSE 0]]

\* a band that reaches down to the label below: [i - 1.6, i + 0.6]
InBandLoose(v, i) == 10 * v >= 10 * i - 16 /\ 10 * v <= 10 * i + 6

\* ctqa.py 345-349: the closed band [i - 0.6, i + 0.6] around label i
InBand(v, i) == 10 * v >= 10 * i - 6 /\ 10 * v <= 10 * i + 6

\* ctqa.py 348-349: the binary mask of label i
DecodeBand(arr, i) == [j \in DOMAIN arr |-> IF InBand(arr[j], i) THEN 1 ELSE 0]

\* an emptiness test that never fires
IsEmptyMaskNever(arr) == FALSE

\* ctqa.py 352-353: num_pixels == 0
IsEmptyMask(arr) == \A j \in DOMAIN arr : arr[j] = 0

\* ctqa.py 363-364: GetImageFromArray, then CopyInformation(fixed_image)
OutputMask(arr, fixed) == [geom |-> fixed, vox |-> arr]

\* ctqa.py 340-382: the decode loop from label i on; `out` holds the masks
\* written so far. It stops at the first label that raises.
RECURSIVE SplitLoop(_, _, _, _, _)
SplitLoop(tarr, fixed, n, i, out) ==
    IF i > n THEN [err |-> "", written |-> out]
    ELSE LET m   == DecodeBand(tarr, i)
             img == OutputMask(m, fixed)
         IN  IF IsEmptyMask(m)
             THEN [err |-> "Transferred mask is empty", written |-> out]
             ELSE IF GeomDiffers(img.geom, fixed)
             THEN [err |-> "Output mask geometry mismatch", written |-> out]
             ELSE SplitLoop(tarr, fixed, n, i + 1,
                            Append(out, [label |-> i, geom |-> img.geom, vox |-> img.vox]))

XferResult(err, comp, tr, written) ==
    [done |-> TRUE, err |-> err, comp |-> comp, tr |-> tr, written |-> written]

\* ctqa.py 219-382. in = [n, masks, fixed, ref, shift]: num_of_<key>_masks, the
\* baseline masks, the geometry of CT.mhd read at line 320, the geometry of
\* CT.mhd when apply_transform read it (registration.py 363), the transform.
transfer_masks(in) ==
    IF in.n = 0 THEN XferResult("", NoImage, NoImage, <<>>)
    ELSE IF FirstMismatch(in.masks) # 0
    THEN XferResult("Mask geometry mismatch", NoImage, NoImage, <<>>)
    ELSE LET comp == [geom |-> in.masks[1].geom,
                      vox  |-> composite_array(in.masks, in.n)]
             tr   == Resample(comp, in.shift, in.ref)
         IN  IF GeomDiffers(tr.geom, in.fixed)
             THEN XferResult("Transformed composite geometry mismatch", comp, tr, <<>>)
             ELSE LET r == SplitLoop(tr.vox, in.fixed, in.n, 1, <<>>)
                  IN  XferResult(r.err, comp, tr, r.written)

NoXfer == [done |-> FALSE, err |-> "", comp |-> NoImage, tr |-> NoImage, written |-> <<>>]

\* the geometry CT.mhd can have at registration.py 363 when it has `fixed` at
\* ctqa.py 320: the same one, or another one if CT.mhd was rewritten in between
RefGeoms(fixed) ==
    {fixed, [spacing |-> fixed.spacing, origin |-> 1 - fixed.origin, size |-> fixed.size]}

\* transfer_masks is about to be called: n masks, the case volume, the volume
\* apply_transform reads, the transform
InitXfer ==
    /\ \E n \in 0..MaxMasks, f \in Geoms :
          \E ms \in [1..n -> Images(MaskGeoms, {0, 1})], r \in RefGeoms(f), t \in Shifts :
             xin = [n |-> n, masks |-> ms, fixed |-> f, ref |-> r, shift |-> t]
    /\ xout = NoXfer

ApplyTransfer ==
    /\ ~xout.done
    /\ xout' = transfer_masks(xin)
    /\ UNCHANGED xin

----------------------------------------------------------------------------
(* The job store and the case directories                                  *)

\* main.py 72: DEFAULT_DEVICE_ID, and a device id with no directory on disk
Devices == {"dev", "ghost"}
CaseIds == 1..MaxClock
Slots == Devices \X CaseIds
NoSlot == <<"", 0>>
FileNames == {"CT.1.dcm"}

\* dicomtools.py 41-53: only *.dcm files are slices
IsDicom(f) == f = "CT.1.dcm"

\* main.py 384-394: the document create_case inserts
case_doc(d, c) ==
    [job_id |-> c, case_id |-> c, device_id |-> d, status |-> "uploading",
     file_count |-> 0, error |-> "", result_dir |-> NoSlot]

\* update_one / find_one: of the matching documents hit (their positions in
\* insertion order) the first one, 0 if none matches
FirstIdx(hit) ==
    IF hit = {} THEN 0 ELSE CHOOSE i \in hit : \A k \in hit : i <= k

\* the filter {"job_id": j} of worker.py 53 and main.py 226, 284
ByJobId(js, j) == FirstIdx({ i \in 1..Len(js) : js[i].job_id = j })

\* the filter {"case_id": c, "device_id": d} of main.py 430, 476, 505, 511
ByCase(js, d, c) ==
    FirstIdx({ i \in 1..Len(js) : js[i].case_id = c /\ js[i].device_id = d })

\* a completed write that leaves result_dir as it was
update_job_status_no_result_dir(js, job_id, status, error, result_dir) ==
    LET i == ByJobId(js, job_id)
    IN  IF i = 0 THEN js
        ELSE [js EXCEPT ![i] =
                [@ EXCEPT !.status = status,
                          !.error = IF error # "" THEN error ELSE @]]

\* a status write that drops the error message
update_job_status_no_error(js, job_id, status, error, result_dir) ==
    LET i == ByJobId(js, job_id)
    IN  IF i = 0 THEN js ELSE [js EXCEPT ![i] = [@ EXCEPT !.status = status]]

\* worker.py 40-55
update_job_status(js, job_id, status, error, result_dir) ==
    LET i == ByJobId(js, job_id)
    IN  IF i = 0 THEN js
        ELSE [js EXCEPT ![i] =
                [@ EXCEPT !.status = status,
                          !.error = IF error # "" THEN error ELSE @,
                          !.result_dir = IF result_dir # NoSlot THEN result_dir ELSE @]]

\* main.py 504-507 and 510-513: the handler's own status write after the fallback
set_case_status(js, d, c, status, error) ==
    LET i == ByCase(js, d, c)
    IN  IF i = 0 THEN js
        ELSE [js EXCEPT ![i] =
                [@ EXCEPT !.status = status,
                          !.error = IF error # "" THEN error ELSE @]]

\* main.py 79-83: get_cases_dir creates the directory (parents=True, exist_ok=True)
get_cases_dir(dirs, d) == dirs \cup {d}

----------------------------------------------------------------------------
(* Calling process_ctqa_analysis                                           *)

\* a signature that also takes the parameter file
ProcessParamsWithParamFile == <<"ctqa_job_id", "extract_dir", "result_dir", "param_file">>

\* worker.py 140: def process_ctqa_analysis(ctqa_job_id, extract_dir, result_dir)
ProcessParams == <<"ctqa_job_id", "extract_dir", "result_dir">>

\* main.py 491-498: Queue.enqueue keeps job_timeout for itself and passes the
\* other keyword arguments on to the function
EnqueueKwargs == {"ctqa_job_id", "extract_dir", "result_dir", "param_file"}

\* Python's argument binding for a signature without defaults, *args or **kwargs:
\* npos positional arguments and the keyword arguments kws bind iff every
\* parameter gets exactly one value and no argument is left over
Binds(params, npos, kws) ==
    /\ npos <= Len(params)
    /\ kws = { params[i] : i \in (npos + 1)..Len(params) }

TypeErrorMsg == "process_ctqa_analysis() got unexpected arguments"

----------------------------------------------------------------------------
(* State of one invocation of process_ctqa_analysis                        *)

Workers == {"w1", "w2"}

Idle == [pc |-> "idle", ctx |-> "", slot |-> NoSlot, exc |-> "",
         hist |-> <<>>, sawEmpty |-> FALSE]

\* the process slot a new invocation takes: the first idle one
IsFirstIdle(w) ==
    /\ wk[w].pc = "idle"
    /\ w = "w2" => wk["w1"].pc # "idle"

\* worker.py 149-160: the alias, mkdir of the case root, setup_job_logger, which
\* opens worker.log with mode 'w' (line 113)
Invoke(w, ctx, s) ==
    /\ wk' = [wk EXCEPT ![w] = [Idle EXCEPT !.pc = "processing", !.ctx = ctx, !.slot = s]]
    /\ log' = [log EXCEPT ![s] = {}]
    /\ runs' = runs + 1

\* an exception raised inside the try block of worker.py 162-207
Raise(w, msg, h) ==
    wk' = [wk EXCEPT ![w] = [@ EXCEPT !.pc = "exc_log", !.exc = msg, !.hist = h]]

Goto(w, pc, h) == wk' = [wk EXCEPT ![w] = [@ EXCEPT !.pc = pc, !.hist = h]]

\* the last response: the handler, the HTTP status, and whether the handler
\* itself executed process_ctqa_analysis
Response(op, code, inline) == [op |-> op, code |-> code, inline |-> inline]

----------------------------------------------------------------------------
(* The HTTP handlers of main.py                                            *)

\* main.py 359-397; dt is the number of seconds the clock has advanced since
\* the last case was created (datetime.now() at line 377); max bounds the number
\* of records
create_case_upto(d, dt, max) ==
    /\ d \in devDirs => Len(jobs) < max /\ clock + dt <= MaxClock
    /\ IF d \notin devDirs
       THEN /\ resp' = Response("create", 404, FALSE)
            /\ UNCHANGED <<clock, devDirs, inputsDir, jobs>>
       ELSE LET case_id == clock + dt
            IN  /\ clock' = case_id
                /\ devDirs' = get_cases_dir(devDirs, d)
                /\ inputsDir' = inputsDir \cup {<<d, case_id>>}
                /\ jobs' = Append(jobs, case_doc(d, case_id))
                /\ resp' = Response("create", 200, FALSE)
    /\ UNCHANGED <<queueUp, files, ctMhd, reports, log, queue, sync, raised, wk,
                   runs, xin, xout, dbVars>>

\* create_case while the job store holds fewer than MaxJobs records
create_case(d, dt) == create_case_upto(d, dt, MaxJobs)

\* main.py 400-437
upload_file_to_case(d, c, f) ==
    /\ LET i == ByCase(jobs, d, c)
       IN  <<d, c>> \in inputsDir /\ i # 0 => jobs[i].file_count < MaxFileCount
    /\ devDirs' = get_cases_dir(devDirs, d)
    /\ IF <<d, c>> \notin inputsDir
       THEN /\ resp' = Response("upload", 404, FALSE)
            /\ UNCHANGED <<files, jobs>>
       ELSE /\ files' = [files EXCEPT ![<<d, c>>] = @ \cup {f}]
            /\ jobs' = LET i == ByCase(jobs, d, c)
                       IN  IF i = 0 THEN jobs
                           ELSE [jobs EXCEPT ![i].file_count = @ + 1]
            /\ resp' = Response("upload", 200, FALSE)
    /\ UNCHANGED <<clock, queueUp, inputsDir, ctMhd, reports, log, queue, sync, raised,
                   wk, runs, xin, xout, dbVars>>

\* main.py 473-487: the queued update
set_queued(js, d, c) ==
    LET i == ByCase(js, d, c)
    IN  IF i = 0 THEN js
        ELSE [js EXCEPT ![i] = [@ EXCEPT !.job_id = c, !.status = "queued",
                                         !.result_dir = <<d, c>>]]

\* a file check that never fires
NoInputFilesNever(fs) == FALSE

\* main.py 465: len(all_files) == 0
NoInputFiles(fs) == fs = {}

\* main.py 440-498 and 516-520; with job_queue unset the handler goes on in
\* SyncFallback
start_case_analysis(d, c) ==
    /\ <<d, c>> \notin sync
    /\ devDirs' = get_cases_dir(devDirs, d)
    /\ IF <<d, c>> \notin inputsDir
       THEN /\ resp' = Response("start", 404, FALSE)
            /\ UNCHANGED <<jobs, queue, sync>>
       ELSE IF NoInputFiles(files[<<d, c>>])
       THEN /\ resp' = Response("start", 400, FALSE)
            /\ UNCHANGED <<jobs, queue, sync>>
       ELSE /\ jobs' = set_queued(jobs, d, c)
            /\ IF queueUp
               THEN /\ Len(queue) < MaxQueue
                    /\ queue' = Append(queue, <<d, c>>)
                    /\ resp' = Response("start", 200, FALSE)
                    /\ UNCHANGED sync
               ELSE /\ sync' = sync \cup {<<d, c>>}
                    /\ UNCHANGED <<queue, resp>>
    /\ UNCHANGED <<clock, queueUp, inputsDir, files, ctMhd, reports, log, raised, wk,
                   runs, xin, xout, dbVars>>

\* main.py 499-514: process_ctqa_analysis(job_id, inputs_dir, result_dir, param_file)
\* called in the handler; a call that does not bind raises TypeError, which the
\* handler's except clause turns into status failed and HTTP 500
SyncFallback(w, s) ==
    /\ s \in sync
    /\ sync' = sync \ {s}
    /\ IF Binds(ProcessParams, 4, {})
       THEN /\ IsFirstIdle(w)
            /\ runs < MaxRuns
            /\ Invoke(w, "caller", s)
            /\ UNCHANGED <<jobs, resp>>
       ELSE /\ w = "w1"
            /\ jobs' = set_case_status(jobs, s[1], s[2], "failed", TypeErrorMsg)
            /\ resp' = Response("start", 500, FALSE)
            /\ UNCHANGED <<wk, log, runs>>
    /\ UNCHANGED <<clock, queueUp, devDirs, inputsDir, files, ctMhd, reports, queue,
                   raised, xin, xout, dbVars>>

----------------------------------------------------------------------------
(* The ways process_ctqa_analysis is invoked outside the handler           *)

\* run_worker.py 76-83: the RQ worker takes the oldest call and performs it with
\* the keyword arguments of main.py 491-498; a call that raises goes to RQ's
\* failed registry
WorkerPickup(w) ==
    /\ queue # <<>>
    /\ IsFirstIdle(w)
    /\ queue' = Tail(queue)
    /\ IF Binds(ProcessParams, 0, EnqueueKwargs)
       THEN /\ runs < MaxRuns
            /\ Invoke(w, "queue", Head(queue))
            /\ UNCHANGED raised
       ELSE /\ raised' = raised \cup {<<"queue", Head(queue)>>}
            /\ UNCHANGED <<wk, log, runs>>
    /\ UNCHANGED <<clock, queueUp, devDirs, inputsDir, files, ctMhd, reports, jobs, sync,
                   resp, xin, xout, dbVars>>

\* worker.py 217-224: python worker.py <job_id> <extract_dir> <result_dir>, with
\* the arguments of main.py 469-471 for an existing case
DirectRun(w, s) ==
    /\ s \in inputsDir
    /\ IsFirstIdle(w)
    /\ runs < MaxRuns
    /\ Binds(ProcessParams, 3, {})
    /\ Invoke(w, "cli", s)
    /\ UNCHANGED <<clock, queueUp, devDirs, inputsDir, files, ctMhd, reports, jobs, queue,
                   sync, raised, resp, xin, xout, dbVars>>

----------------------------------------------------------------------------
(* CTQA.run (ctqa.py 87-217) as a function of what its stages meet          *)

A3 == [spacing |-> 1, origin |-> 0, size |-> 3]

\* the inputs transfer_masks meets in a run: two disjoint masks, under a
\* transform that keeps them inside the volume or one that moves the first out
XferScenarios ==
    LET m1 == [geom |-> A3, vox |-> <<1, 0, 0>>]
        m2 == [geom |-> A3, vox |-> <<0, 1, 1>>]
    IN  { [n |-> 2, masks |-> <<m1, m2>>, fixed |-> A3, ref |-> A3, shift |-> t] :
             t \in Shifts }

\* ctqa.py 196-201: the region keys in the order run() transfers them
Keys == <<"HU", "UF", "HC", "LC", "geo", "DT">>

\* the stages with the report written before the measurements
RunStagesReportFirst == <<"register">> \o Keys \o <<"report", "measure">>

\* ctqa.py 189-211: the calls of run() after its checks, in program order
RunStages == <<"register">> \o Keys \o <<"measure", "report">>

IsTransfer(stage) == \E i \in 1..Len(Keys) : Keys[i] = stage

\* what the stages of one run meet: env.ok[stage] for the registration (ctqa.py
\* 189), analyze (ctqa.py 207; calc_relative_mtf raises at line 613 when no
\* sample is below 0.5) and report (ctqa.py 211; raises at line 882 when the
\* template is missing), env.xfer[key] for the input of each transfer
StageError(stage) ==
    CASE stage = "register" -> "Registration failed"
      [] stage = "measure"  -> "calc_relative_mtf() - Failed finding 50% crossing!"
      [] stage = "report"   -> "report template not found"
      [] OTHER              -> ""

\* some label 1..n has no voxel of the resampled composite in its band
HasEmptyBand(in, r) ==
    /\ r.tr # NoImage
    /\ \E i \in 1..in.n : \A j \in DOMAIN r.tr.vox : ~InBand(r.tr.vox[j], i)

\* the error stage i of RunStages ends with under env, "" if it returns
StageOutcome(stage, env) ==
    IF IsTransfer(stage) THEN transfer_masks(env.xfer[stage]).err
    ELSE IF env.ok[stage] THEN "" ELSE StageError(stage)

\* ctqa.py 189-211: the stages from index i on, each called when the one before
\* has returned; an exception leaves run(). st = [err, hist, sawEmpty]
RECURSIVE RunFrom(_, _, _)
RunFrom(i, st, env) ==
    IF i > Len(RunStages) THEN st
    ELSE LET stage == RunStages[i]
             e     == StageOutcome(stage, env)
             saw   == st.sawEmpty \/
                      (IsTransfer(stage) /\
                       HasEmptyBand(env.xfer[stage], transfer_masks(env.xfer[stage])))
             now   == [err |-> e, hist |-> Append(st.hist, stage), sawEmpty |-> saw]
         IN  IF e # "" THEN now ELSE RunFrom(i + 1, now, env)

\* the environments explored: every stage succeeds except possibly stage `stop`,
\* and the transfers keep their masks except that of `stop`, which meets sc
OkScenario == CHOOSE sc \in XferScenarios : sc.shift = 0

Env(stop, sc) ==
    [baseline |-> stop # "baseline",
     ok   |-> [g \in {"register", "measure", "report"} |-> g # stop],
     xfer |-> [k \in {Keys[i] : i \in 1..Len(Keys)} |->
                  IF k = stop THEN sc ELSE OkScenario]]

RunEnvs == { Env(stop, sc) : stop \in {RunStages[i] : i \in 1..Len(RunStages)}
                                       \cup {"", "baseline"},
                           sc \in XferScenarios }

\* ctqa.py 87-217: run(), the baseline directory check (lines 102-104) and then
\* the stages
run(env) ==
    IF ~env.baseline
    THEN [err |-> "Baseline directory not found", hist |-> <<>>, sawEmpty |-> FALSE]
    ELSE RunFrom(1, [err |-> "", hist |-> <<>>, sawEmpty |-> FALSE], env)

RunResults == { run(env) : env \in RunEnvs }

----------------------------------------------------------------------------
(* process_ctqa_analysis (worker.py 140-214), one action per step           *)

JobId(w) == wk[w].slot[2]

\* worker.py 164
WriteProcessing(w) ==
    /\ wk[w].pc = "processing"
    /\ jobs' = update_job_status(jobs, JobId(w), "processing", "", NoSlot)
    /\ Goto(w, "convert", wk[w].hist)
    /\ UNCHANGED <<clock, queueUp, devDirs, inputsDir, files, ctMhd, reports, log, queue,
                   sync, raised, runs, resp, xin, xout, dbVars>>

\* worker.py 167-187 and dicomtools.py 27-285: the parameter file check, then
\* the conversion of the slices to CT.mhd unless CT.mhd exists
Convert(w) ==
    /\ wk[w].pc = "convert"
    /\ \E param \in BOOLEAN :
          IF ~param
          THEN /\ Raise(w, "Machine parameter file not found", wk[w].hist)
               /\ UNCHANGED ctMhd
          ELSE IF wk[w].slot \in ctMhd
          THEN /\ Goto(w, "run", wk[w].hist)
               /\ UNCHANGED ctMhd
          ELSE LET h == Append(wk[w].hist, "ingest")
               IN  IF \A f \in files[wk[w].slot] : ~IsDicom(f)
                   THEN /\ Raise(w, "No DICOM files found", h)
                        /\ UNCHANGED ctMhd
                   ELSE /\ ctMhd' = ctMhd \cup {wk[w].slot}
                        /\ Goto(w, "run", h)
    /\ UNCHANGED <<clock, queueUp, devDirs, inputsDir, files, reports, log, jobs, queue,
                   sync, raised, runs, resp, xin, xout, dbVars>>

\* worker.py 189-196 and ctqa.py 87-217: CTQA(), then run()
CtqaRun(w) ==
    /\ wk[w].pc = "run"
    /\ \E r \in RunResults :
          /\ wk' = [wk EXCEPT ![w] =
                    [@ EXCEPT !.pc = IF r.err = "" THEN "completed" ELSE "exc_log",
                              !.exc = r.err, !.hist = wk[w].hist \o r.hist,
                              !.sawEmpty = r.sawEmpty]]
          \* ctqa.py 923-935: report, the last stage, has written both files
          /\ reports' = IF r.err = "" THEN reports \cup {wk[w].slot} ELSE reports
    /\ UNCHANGED <<clock, queueUp, devDirs, inputsDir, files, ctMhd, log, jobs,
                   queue, sync, raised, runs, resp, xin, xout, dbVars>>

\* worker.py 202
WriteCompleted(w) ==
    /\ wk[w].pc = "completed"
    /\ jobs' = update_job_status(jobs, JobId(w), "completed", "", wk[w].slot)
    /\ Goto(w, "save", wk[w].hist)
    /\ UNCHANGED <<clock, queueUp, devDirs, inputsDir, files, ctMhd, reports, log, queue,
                   sync, raised, runs, resp, xin, xout, dbVars>>

\* the exception of results_collection.update_one (worker.py 94-98), which
\* save_result_to_db does not catch
SaveError == "Saving the result failed"

\* worker.py 205-207: save_result_to_db, whose update_one succeeds or raises
\* into the except clause; then the function returns, for the synchronous
\* fallback into main.py 503-507 and 516-520
SaveResult(w) ==
    /\ wk[w].pc = "save"
    /\ \E stored \in BOOLEAN :
          IF ~stored
          THEN /\ Raise(w, SaveError, wk[w].hist)
               /\ UNCHANGED <<jobs, resp>>
          ELSE /\ wk' = [wk EXCEPT ![w] = Idle]
               /\ IF wk[w].ctx = "caller"
                  THEN /\ jobs' = set_case_status(jobs, wk[w].slot[1], wk[w].slot[2],
                                                  "completed", "")
                       /\ resp' = Response("start", 200, TRUE)
                  ELSE UNCHANGED <<jobs, resp>>
    /\ UNCHANGED <<clock, queueUp, devDirs, inputsDir, files, ctMhd, reports, log, queue,
                   sync, raised, runs, xin, xout, dbVars>>

\* worker.py 209-212: the except clause logs the message and the traceback
ExceptLog(w) ==
    /\ wk[w].pc = "exc_log"
    /\ log' = [log EXCEPT ![wk[w].slot] = @ \cup {wk[w].exc}]
    /\ Goto(w, "exc_status", wk[w].hist)
    /\ UNCHANGED <<clock, queueUp, devDirs, inputsDir, files, ctMhd, reports, jobs, queue,
                   sync, raised, runs, resp, xin, xout, dbVars>>

\* worker.py 213-214: the failed write, then the exception leaves the function:
\* into main.py 508-514 for the synchronous fallback, to RQ for a queued call
ExceptStatus(w) ==
    /\ wk[w].pc = "exc_status"
    /\ wk' = [wk EXCEPT ![w] = Idle]
    /\ LET js == update_job_status(jobs, JobId(w), "failed", wk[w].exc, NoSlot)
       IN  IF wk[w].ctx = "caller"
           THEN /\ jobs' = set_case_status(js, wk[w].slot[1], wk[w].slot[2],
                                           "failed", wk[w].exc)
                /\ resp' = Response("start", 500, TRUE)
           ELSE /\ jobs' = js
                /\ UNCHANGED resp
    /\ raised' = raised \cup {<<wk[w].ctx, wk[w].slot>>}
    /\ UNCHANGED <<clock, queueUp, devDirs, inputsDir, files, ctMhd, reports, log, queue,
                   sync, runs, xin, xout, dbVars>>

----------------------------------------------------------------------------
(* The forms backend (backend/app): forms, submissions, baselines            *)

FormIds == {"baseline_temp", "daily_check"}

\* document ids of the submissions collection
SubIds == {"s1", "s2"}

\* a submission_id that ObjectId() rejects
BadId == "not-an-object-id"

Temperatures == {28, 30}

SubmitTimes == {1, 2}

\* test_posts.py 51-63: the pass_fail rule of daily_check
ReferenceRule ==
    [type |-> "pass_fail", left |-> "temperature", operator |-> "<",
     right |-> [source |-> "reference", formId |-> "baseline_temp",
                field |-> "temperature", mode |-> "last"]]

\* the value None
None == "None"

\* rules.py 21-47: the referenced field of a submission of the form with the
\* greatest submittedAt, and the reference key
resolve_reference(right, subs) ==
    LET ref_key == <<right.formId, right.field, right.mode>>
        docs == {s \in DOMAIN subs : subs[s].formId = right.formId}
        last == {s \in docs : \A t \in docs : subs[t].submittedAt <= subs[s].submittedAt}
    IN  IF right.mode # "last" \/ docs = {}
        THEN {[value |-> None, ref_key |-> ref_key]}
        ELSE {[value |-> IF right.field \in DOMAIN subs[s].values
                         THEN subs[s].values[right.field] ELSE None,
               ref_key |-> ref_key] : s \in last}

\* rules.py 50-66, with the try/except of lines 100-104: ordering a number
\* against None raises TypeError, and the rule is not passed
compare(left, op, right) ==
    IF op \in {"==", "!="}
    THEN (op = "==") <=> (left = right)
    ELSE IF left = None \/ right = None THEN FALSE
    ELSE CASE op = "<"  -> left < right
           [] op = "<=" -> left <= right
           [] op = ">"  -> left > right
           [] op = ">=" -> left >= right
           [] OTHER     -> FALSE

\* rules.py 69-119 for a form with at most one rule, whose right side is a
\* reference: the possible (passed_all, references_used)
evaluate_rules(rules, values, subs) ==
    IF rules = <<>> THEN {[passed_all |-> TRUE, references_used |-> {}]}
    ELSE LET r == rules[1]
             left_val == IF r.left \in DOMAIN values THEN values[r.left] ELSE None
         IN  {[passed_all |-> compare(left_val, r.operator, ref.value),
               references_used |-> {<<ref.ref_key, ref.value>>}] :
                 ref \in resolve_reference(r.right, subs)}

\* schemas.py 42-43
SubmissionIn == {"values"}

\* the attributes of `submission` that submit_form reads, in program order
SubmitReads == <<"values", "metadata", "result", "submissionHtml", "comments", "attachments">>

BackendResponse(op, code, body) == [op |-> op, code |-> code, body |-> body]

NoBody == [detail |-> ""]

\* forms.py 26-45
upsert_form(f, rules) ==
    /\ forms' = [g \in DOMAIN forms \cup {f} |-> IF g = f THEN [rules |-> rules] ELSE forms[g]]
    /\ bresp' = BackendResponse("upsert", 200, [status |-> "ok", formId |-> f])
    /\ UNCHANGED <<submissions, reqs, lifeVars, xin, xout>>

\* submissions.py 11-85: 404 for an unknown form; an attribute of the request
\* model that SubmissionIn does not declare raises AttributeError (a 500);
\* otherwise the document is inserted and returned
submit_form(f, values, id, t) ==
    /\ id \notin DOMAIN submissions
    /\ \A s \in DOMAIN submissions : submissions[s].submittedAt <= t
    /\ IF f \notin DOMAIN forms
       THEN /\ bresp' = BackendResponse("submit", 404, [detail |-> "Form not found"])
            /\ UNCHANGED submissions
       ELSE IF \E i \in 1..Len(SubmitReads) : SubmitReads[i] \notin SubmissionIn
       THEN /\ bresp' = BackendResponse("submit", 500, [detail |-> "AttributeError"])
            /\ UNCHANGED submissions
       ELSE LET doc == [formId |-> f, values |-> values, submittedAt |-> t,
                        baseline |-> FALSE]
            IN  /\ submissions' = [s \in DOMAIN submissions \cup {id} |->
                                     IF s = id THEN doc ELSE submissions[s]]
                /\ bresp' = BackendResponse("submit", 200,
                               [_id |-> id, formId |-> f, values |-> values,
                                result |-> None, submittedAt |-> t])
    /\ UNCHANGED <<forms, reqs, lifeVars, xin, xout>>

Requests == {"r1", "r2"}

IdleReq == [pc |-> "idle", form |-> "", sub |-> "", is_baseline |-> FALSE]

\* the requests are interchangeable: a new one takes the first free slot
IsFirstIdleReq(r) ==
    /\ reqs[r].pc = "idle"
    /\ r = "r2" => reqs["r1"].pc # "idle"

\* submissions.py 198-208: the id check and the lookup of the submission
set_baseline_find(r, f, id, is_baseline) ==
    /\ IsFirstIdleReq(r)
    /\ IF id = BadId
       THEN /\ bresp' = BackendResponse("set_baseline", 400, [detail |-> "Invalid submission id"])
            /\ UNCHANGED reqs
       ELSE IF ~(id \in DOMAIN submissions /\ submissions[id].formId = f)
       THEN /\ bresp' = BackendResponse("set_baseline", 404, [detail |-> "Submission not found"])
            /\ UNCHANGED reqs
       ELSE /\ reqs' = [reqs EXCEPT ![r] =
                          [pc |-> IF is_baseline THEN "unset_others" ELSE "update",
                           form |-> f, sub |-> id, is_baseline |-> is_baseline]]
            /\ UNCHANGED bresp
    /\ UNCHANGED <<forms, submissions, lifeVars, xin, xout>>

\* submissions.py 210-215: update_many
set_baseline_unset_others(r) ==
    /\ reqs[r].pc = "unset_others"
    /\ submissions' = [s \in DOMAIN submissions |->
                         IF submissions[s].formId = reqs[r].form /\ s # reqs[r].sub
                         THEN [submissions[s] EXCEPT !.baseline = FALSE]
                         ELSE submissions[s]]
    /\ reqs' = [reqs EXCEPT ![r].pc = "update"]
    /\ UNCHANGED <<forms, bresp, lifeVars, xin, xout>>

\* submissions.py 216-228: update_one and the response
set_baseline_update(r) ==
    /\ reqs[r].pc = "update"
    /\ submissions' = [s \in DOMAIN submissions |->
                         IF s = reqs[r].sub
                         THEN [submissions[s] EXCEPT !.baseline = reqs[r].is_baseline]
                         ELSE submissions[s]]
    /\ bresp' = BackendResponse("set_baseline", 200,
                   [status |-> "ok", submissionId |-> reqs[r].sub,
                    baseline |-> reqs[r].is_baseline])
    /\ reqs' = [reqs EXCEPT ![r] = IdleReq]
    /\ UNCHANGED <<forms, lifeVars, xin, xout>>

\* the number of submissions of form f whose baseline is true
Baselines(f) ==
    Cardinality({s \in DOMAIN submissions : submissions[s].formId = f /\ submissions[s].baseline})

\* the backend before its first request, on an empty database
NoBackend ==
    /\ forms = <<>>
    /\ submissions = <<>>
    /\ reqs = [r \in Requests |-> IdleReq]
    /\ bresp = BackendResponse("", 0, NoBody)

\* the documents migrate_data.py restores into the submissions collection
Restored ==
    [formId : FormIds, values : [{"temperature"} -> Temperatures],
     submittedAt : SubmitTimes, baseline : BOOLEAN]

\* the backend before its first request, on a restored database with at most
\* one baseline per form
InitBackend ==
    /\ forms = <<>>
    /\ \E ids \in SUBSET SubIds : \E subs \in [ids -> Restored] :
          /\ \A f \in FormIds :
                Cardinality({s \in ids : subs[s].formId = f /\ subs[s].baseline}) <= 1
          /\ submissions = subs
    /\ reqs = [r \in Requests |-> IdleReq]
    /\ bresp = BackendResponse("", 0, NoBody)

----------------------------------------------------------------------------
(* Specifications                                                          *)

\* main.py 46-68, 94: the module's state after import; CASES_DIR =
\* get_cases_dir(DEFAULT_DEVICE_ID) has created the default device's directory
InitCases ==
    /\ clock = 1
    /\ queueUp \in BOOLEAN
    /\ devDirs = {"dev"}
    /\ inputsDir = {}
    /\ files = [s \in Slots |-> {}]
    /\ ctMhd = {}
    /\ reports = {}
    /\ log = [s \in Slots |-> {}]
    /\ jobs = <<>>
    /\ queue = <<>>
    /\ sync = {}
    /\ raised = {}
    /\ wk = [w \in Workers |-> Idle]
    /\ runs = 0
    /\ resp = Response("", 0, FALSE)

InitLife ==
    /\ InitCases
    /\ NoBackend

Init ==
    /\ InitLife
    /\ xin = [n |-> 0, masks |-> <<>>, fixed |-> A3, ref |-> A3, shift |-> 0]
    /\ xout = NoXfer

Next ==
    \/ \E d \in Devices, dt \in {0, 1} : create_case(d, dt)
    \/ \E d \in Devices, c \in CaseIds, f \in FileNames : upload_file_to_case(d, c, f)
    \/ \E d \in Devices, c \in CaseIds : start_case_analysis(d, c)
    \/ \E w \in Workers, s \in Slots : SyncFallback(w, s)
    \/ \E w \in Workers : WorkerPickup(w)
    \/ \E w \in Workers, s \in Slots : DirectRun(w, s)
    \/ \E w \in Workers : WriteProcessing(w)
    \/ \E w \in Workers : Convert(w)
    \/ \E w \in Workers : CtqaRun(w)
    \/ \E w \in Workers : WriteCompleted(w)
    \/ \E w \in Workers : SaveResult(w)
    \/ \E w \in Workers : ExceptLog(w)
    \/ \E w \in Workers : ExceptStatus(w)

Spec == Init /\ [][Next]_vars

\* transfer_masks applied to every input InitXfer draws
InitX ==
    /\ InitLife
    /\ queueUp
    /\ InitXfer

NextX == ApplyTransfer /\ UNCHANGED <<lifeVars, dbVars>>

SpecXfer == InitX /\ [][NextX]_vars

----------------------------------------------------------------------------
(* CTQA.collect_analysis_results: the measurements of a case against its    *)
(* baseline, and overall_passed                                             *)

\* the sections of the result in the order the dictionary is built, without
\* "metadata"
SectionKeys ==
    <<"hu_consistency", "geometric_accuracy_inplane", "geometric_accuracy_outofplane",
      "uniformity_hu", "uniformity_integral", "low_contrast", "high_contrast_rmtf",
      "high_contrast_rmtf50">>

\* num_of_masks as collect_analysis_results passes it: the literal 1 for the two
\* one-value files, num_of_<key>_masks of the machine parameters otherwise
num_of_masks(section) ==
    IF section \in {"uniformity_integral", "high_contrast_rmtf50"} THEN 1 ELSE MaxMasks

\* <key>_tol of the machine parameters, in the unit of the values
Tol == 1

\* the values a CSV cell holds, in the unit of Tol: on the baseline, and off it by
\* exactly the tolerance
CsvValues == {0, 1}

Abs(x) == IF x < 0 THEN -x ELSE x

MinOf(S) == CHOOSE x \in S : \A y \in S : x <= y

\* a mutant of collect_csv_results: a difference equal to the tolerance passes
collect_csv_results_inclusive(csv, n, tol) ==
    IF ~csv.file0 THEN <<>>
    ELSE IF ~csv.file1 THEN <<>>
    ELSE [i \in 1..MinOf({n, Len(csv.values0), Len(csv.values1)}) |->
            LET diff == csv.values1[i] - csv.values0[i]
            IN  [id |-> i, value |-> csv.values1[i], reference |-> csv.values0[i],
                 difference |-> diff, tolerance |-> tol, passed |-> Abs(diff) <= tol]]

\* csv = [file0, file1, values0, values1]: whether the baseline file and the case
\* file exist, and their second lines
collect_csv_results(csv, n, tol) ==
    IF ~csv.file0 THEN <<>>
    ELSE IF ~csv.file1 THEN <<>>
    ELSE [i \in 1..MinOf({n, Len(csv.values0), Len(csv.values1)}) |->
            LET value == csv.values1[i]
                reference == csv.values0[i]
                diff == value - reference
            IN  [id |-> i, value |-> value, reference |-> reference,
                 difference |-> diff, tolerance |-> tol, passed |-> Abs(diff) < tol]]

\* the inner loop of the overall pass/fail: FALSE at the first item not passed
RECURSIVE ItemsPassed(_, _)
ItemsPassed(items, i) ==
    IF i > Len(items) THEN TRUE
    ELSE IF ~items[i].passed THEN FALSE
    ELSE ItemsPassed(items, i + 1)

\* a mutant of AllPassedFrom: the last section is not looked at
AllPassedButLast(sections, k) ==
    \A j \in k..(Len(SectionKeys) - 1) : ItemsPassed(sections[SectionKeys[j]].results, 1)

\* the outer loop, from section k on: it stops at the first section with an item
\* not passed
RECURSIVE AllPassedFrom(_, _)
AllPassedFrom(sections, k) ==
    IF k > Len(SectionKeys) THEN TRUE
    ELSE IF ~ItemsPassed(sections[SectionKeys[k]].results, 1) THEN FALSE
    ELSE AllPassedFrom(sections, k + 1)

\* files: per section, the two CSV files it is read from
collect_analysis_results(csvs) ==
    LET sections ==
            [s \in {SectionKeys[k] : k \in 1..Len(SectionKeys)} |->
                [tolerance |-> Tol,
                 results |-> collect_csv_results(csvs[s], num_of_masks(s), Tol)]]
    IN  [done |-> TRUE, sections |-> sections,
         overall_passed |-> AllPassedFrom(sections, 1)]

NoResults == [done |-> FALSE]

\* the CSV pairs of a section with n configured masks: the case file missing, or
\* both there with n values each
CsvInputs(n) ==
    { [file0 |-> TRUE, file1 |-> FALSE, values0 |-> [i \in 1..n |-> 0], values1 |-> <<>>] }
    \cup { [file0 |-> TRUE, file1 |-> TRUE, values0 |-> [i \in 1..n |-> 0], values1 |-> v] :
             v \in [1..n -> CsvValues] }

InitCollect ==
    /\ \E hu \in CsvInputs(MaxMasks), gi \in CsvInputs(MaxMasks), go \in CsvInputs(MaxMasks),
          uf \in CsvInputs(MaxMasks) :
         \E ui \in CsvInputs(1), lc \in CsvInputs(MaxMasks), hc \in CsvInputs(MaxMasks),
            h5 \in CsvInputs(1) :
            xin = [hu_consistency |-> hu, geometric_accuracy_inplane |-> gi,
                   geometric_accuracy_outofplane |-> go, uniformity_hu |-> uf,
                   uniformity_integral |-> ui, low_contrast |-> lc,
                   high_contrast_rmtf |-> hc, high_contrast_rmtf50 |-> h5]
    /\ xout = NoResults

ApplyCollect ==
    /\ ~xout.done
    /\ xout' = collect_analysis_results(xin)
    /\ UNCHANGED xin

InitR ==
    /\ InitLife
    /\ queueUp
    /\ InitCollect

NextR == ApplyCollect /\ UNCHANGED <<lifeVars, dbVars>>

SpecCollect == InitR /\ [][NextR]_vars

----------------------------------------------------------------------------
(* CTQA.report: report.html, then analysis_results.json                     *)

\* ctqa.py 911: the row count of the {{{HC.RMTF}}} table is the literal 15
HcRmtfRows == 15

\* num_of_masks as report passes it to gen_html_table_rows_from_csv
html_rows(section) ==
    IF section = "high_contrast_rmtf" THEN HcRmtfRows ELSE num_of_masks(section)

\* the placeholders of the table rows in the order report evaluates them
RowOrder ==
    <<"hu_consistency", "geometric_accuracy_outofplane", "geometric_accuracy_inplane",
      "uniformity_hu", "uniformity_integral", "low_contrast", "high_contrast_rmtf",
      "high_contrast_rmtf50">>

\* gen_html_table_rows_from_csv: open() raises on a missing file, values[i] on a
\* line with fewer than n cells; err = "" and the rows otherwise
gen_html_table_rows_from_csv(csv, n, tol) ==
    IF ~csv.file0 \/ ~csv.file1 THEN [err |-> "FileNotFoundError", rows |-> <<>>]
    ELSE IF Len(csv.values0) < n \/ Len(csv.values1) < n
    THEN [err |-> "IndexError", rows |-> <<>>]
    ELSE [err |-> "",
          rows |-> [i \in 1..n |->
                      LET diff == csv.values1[i] - csv.values0[i]
                      IN  [label |-> i, value1 |-> csv.values1[i],
                           value0 |-> csv.values0[i], diff |-> diff,
                           pass_fail |-> IF Abs(diff) < tol THEN "Pass" ELSE "Fail"]]]

\* the chain of replace calls from placeholder k on: the first exception leaves
\* report
RECURSIVE RenderFrom(_, _, _)
RenderFrom(csvs, k, html) ==
    IF k > Len(RowOrder) THEN [err |-> "", html |-> html]
    ELSE LET s == RowOrder[k]
             r == gen_html_table_rows_from_csv(csvs[s], html_rows(s), Tol)
         IN  IF r.err # "" THEN [err |-> r.err, html |-> html]
             ELSE RenderFrom(csvs, k + 1, [html EXCEPT ![s] = r.rows])

NoFile == [written |-> FALSE]

ReportResult(err, html, json) == [done |-> TRUE, err |-> err, html |-> html, json |-> json]

\* in = [template, csvs, json_ok]: whether the template file exists, the CSV
\* pairs of the sections, whether json.dump succeeds. The template check, the
\* rendering, report.html written, then analysis_results.json opened for
\* writing and dumped
report(in) ==
    IF ~in.template THEN ReportResult("report template not found", NoFile, NoFile)
    ELSE LET r == RenderFrom(in.csvs, 1, [s \in DOMAIN in.csvs |-> <<>>])
         IN  IF r.err # "" THEN ReportResult(r.err, NoFile, NoFile)
             ELSE LET html == [written |-> TRUE, tables |-> r.html]
                      doc  == collect_analysis_results(in.csvs)
                  IN  IF ~in.json_ok
                      THEN ReportResult("json.dump failed", html,
                                        [written |-> TRUE, complete |-> FALSE])
                      ELSE ReportResult("", html,
                                        [written |-> TRUE, complete |-> TRUE, doc |-> doc])

\* the CSV pairs report meets for a section with n rows in its table: the case
\* file missing, a line one cell short, n cells
ReportCsvInputs(n) ==
    { [file0 |-> TRUE, file1 |-> FALSE, values0 |-> [i \in 1..n |-> 0], values1 |-> <<>>],
      [file0 |-> TRUE, file1 |-> TRUE, values0 |-> [i \in 1..n |-> 0],
       values1 |-> [i \in 1..(n - 1) |-> 0]],
      [file0 |-> TRUE, file1 |-> TRUE, values0 |-> [i \in 1..n |-> 0],
       values1 |-> [i \in 1..n |-> 0]] }

InitReport ==
    /\ \E t \in BOOLEAN, j \in BOOLEAN :
         \E hu \in ReportCsvInputs(html_rows("hu_consistency")),
            gi \in ReportCsvInputs(html_rows("geometric_accuracy_inplane")),
            go \in ReportCsvInputs(html_rows("geometric_accuracy_outofplane")),
            uf \in ReportCsvInputs(html_rows("uniformity_hu")) :
           \E ui \in ReportCsvInputs(html_rows("uniformity_integral")),
              lc \in ReportCsvInputs(html_rows("low_contrast")),
              hc \in ReportCsvInputs(html_rows("high_contrast_rmtf")),
              h5 \in ReportCsvInputs(html_rows("high_contrast_rmtf50")) :
              xin = [template |-> t, json_ok |-> j,
                     csvs |-> [hu_consistency |-> hu, geometric_accuracy_inplane |-> gi,
                               geometric_accuracy_outofplane |-> go, uniformity_hu |-> uf,
                               uniformity_integral |-> ui, low_contrast |-> lc,
                               high_contrast_rmtf |-> hc, high_contrast_rmtf50 |-> h5]]
    /\ xout = NoResults

ApplyReport ==
    /\ ~xout.done
    /\ xout' = report(xin)
    /\ UNCHANGED xin

InitP ==
    /\ InitLife
    /\ queueUp
    /\ InitReport

NextP == ApplyReport /\ UNCHANGED <<lifeVars, dbVars>>

SpecReport == InitP /\ [][NextP]_vars

----------------------------------------------------------------------------
(* Binary floating point: a float is [m, e] with value m * 2^e, m = 0 (and  *)
(* e = 0) or 2^(Precision-1) <= |m| < 2^Precision; every operation returns  *)
(* the exact result rounded to nearest, ties to even (Python float, with    *)
(* Precision bits in place of 53 and no exponent limit)                     *)

Sign(n) == IF n < 0 THEN -1 ELSE 1

\* the number of bits of n > 0
RECURSIVE BitLen(_)
BitLen(n) == IF n = 0 THEN 0 ELSE 1 + BitLen(n \div 2)

Zero == [m |-> 0, e |-> 0]

\* the float nearest to n * 2^e
RoundFloat(n, e) ==
    IF n = 0 THEN Zero
    ELSE LET a == Abs(n)
             len == BitLen(a)
         IN  IF len <= Precision
             THEN [m |-> n * 2^(Precision - len), e |-> e - (Precision - len)]
             ELSE LET s    == len - Precision
                      q    == a \div 2^s
                      r    == a % 2^s
                      half == 2^(s - 1)
                      up   == r > half \/ (r = half /\ q % 2 = 1)
                      q1   == IF up THEN q + 1 ELSE q
                  IN  IF q1 = 2^Precision
                      THEN [m |-> Sign(n) * 2^(Precision - 1), e |-> e + s + 1]
                      ELSE [m |-> Sign(n) * q1, e |-> e + s]

\* a and b as integers over the common exponent MinOf({a.e, b.e})
Aligned(a, b) ==
    LET e == MinOf({a.e, b.e})
    IN  [x |-> a.m * 2^(a.e - e), y |-> b.m * 2^(b.e - e), e |-> e]

FLess(a, b) == LET c == Aligned(a, b) IN c.x < c.y

FAdd(a, b) == LET c == Aligned(a, b) IN RoundFloat(c.x + c.y, c.e)

FSub(a, b) == LET c == Aligned(a, b) IN RoundFloat(c.x - c.y, c.e)

FMul(a, b) == RoundFloat(a.m * b.m, a.e + b.e)

\* b # Zero. The quotient to 2*Precision + 2 bits and a sticky bit for the
\* remainder, then rounded
FDiv(a, b) ==
    LET k  == 2 * Precision + 2
        n  == Abs(a.m) * 2^k
        d  == Abs(b.m)
        q  == n \div d
        q2 == IF n % d = 0 THEN 2 * q ELSE 2 * q + 1
    IN  RoundFloat(Sign(a.m) * Sign(b.m) * q2, a.e - b.e - k - 1)

RECURSIVE FMax(_, _)
FMax(v, i) ==
    IF i = 1 THEN v[1]
    ELSE LET m == FMax(v, i - 1) IN IF FLess(m, v[i]) THEN v[i] ELSE m

RECURSIVE FMin(_, _)
FMin(v, i) ==
    IF i = 1 THEN v[1]
    ELSE LET m == FMin(v, i - 1) IN IF FLess(v[i], m) THEN v[i] ELSE m

----------------------------------------------------------------------------
(* CTQA.calc_integral_non_uniformity                                        *)

\* a mutant of calc_integral_non_uniformity: the range itself, not divided by
\* max + min
integral_range(values) ==
    [err |-> "", inu |-> FSub(FMax(values, Len(values)), FMin(values, Len(values)))]

\* values: the second line of UF.csv. Float division by zero raises.
calc_integral_non_uniformity(values) ==
    LET max_val == FMax(values, Len(values))
        min_val == FMin(values, Len(values))
        den     == FAdd(max_val, min_val)
    IN  IF den = Zero THEN [err |-> "ZeroDivisionError", inu |-> Zero]
        ELSE [err |-> "", inu |-> FDiv(FSub(max_val, min_val), den)]

\* the floats the values are drawn from: every mantissa, two exponents, both signs
SomeFloats ==
    { [m |-> s * m, e |-> e] : s \in {1, -1}, m \in 2^(Precision - 1)..(2^Precision - 1),
                               e \in {1 - Precision, 2 - Precision} }

\* the scaling factors 2, 1/2, 3 and 3/2
Scalings ==
    { RoundFloat(2, 0), RoundFloat(1, -1), RoundFloat(3, 0), RoundFloat(3, -1) }

IsPowerOfTwo(k) == Abs(k.m) = 2^(Precision - 1)

InitInu ==
    /\ \E a \in SomeFloats, b \in SomeFloats, k \in Scalings :
          xin = [values |-> <<a, b>>, k |-> k]
    /\ xout = NoResults

\* the function applied to the values and to the values scaled by k
ApplyInu ==
    /\ ~xout.done
    /\ xout' = [done |-> TRUE,
                of_v  |-> calc_integral_non_uniformity(xin.values),
                of_kv |-> calc_integral_non_uniformity(
                              [i \in DOMAIN xin.values |-> FMul(xin.k, xin.values[i])])]
    /\ UNCHANGED xin

InitU ==
    /\ InitLife
    /\ queueUp
    /\ InitInu

NextU == ApplyInu /\ UNCHANGED <<lifeVars, dbVars>>

SpecInu == InitU /\ [][NextU]_vars

----------------------------------------------------------------------------
(* imagetools.calc_image_min_max_mean_std_3d_f and the two readers of its   *)
(* output, CTQA.mean_pixel_value and CTQA.std_pixel_value                   *)

\* the square root of a >= 0, rounded: the integer root of the mantissa over an
\* even exponent, with a sticky bit for the remainder
FSqrt(a) ==
    IF a.m = 0 THEN Zero
    ELSE LET s == IF a.e % 2 = 0 THEN 2 * (Precision + 1) ELSE 2 * (Precision + 1) + 1
             n == a.m * 2^s
             r == CHOOSE x \in 0..2^(2 * Precision + 2) : x * x <= n /\ n < (x + 1) * (x + 1)
             r2 == IF r * r = n THEN 2 * r ELSE 2 * r + 1
         IN  RoundFloat(r2, ((a.e - s) \div 2) - 1)

\* the float of an integer
FromInt(n) == RoundFloat(n, 0)

RECURSIVE FSum(_, _)
FSum(v, i) == IF i = 0 THEN Zero ELSE FAdd(FSum(v, i - 1), v[i])

\* np.mean of a non-empty array of floats
np_mean(v) == FDiv(FSum(v, Len(v)), FromInt(Len(v)))

\* np.std: the root of the mean of the squared deviations from the mean
np_std(v) ==
    LET mu == np_mean(v)
        sq == [i \in DOMAIN v |-> LET d == FSub(v[i], mu) IN FMul(d, d)]
    IN  FSqrt(np_mean(sq))

\* image_array[mask_array > 0.5], in array order; 10*mask > 5 is mask > 0.5
RECURSIVE masked_values(_, _, _)
masked_values(image, mask, i) ==
    IF i > Len(image) THEN <<>>
    ELSE (IF 10 * mask[i] > 5 THEN <<FromInt(image[i])>> ELSE <<>>)
         \o masked_values(image, mask, i + 1)

\* a mutant of calc_image_min_max_mean_std_3d_f: the sum of the masked values is
\* divided by the size of the volume
stat_over_volume(image, mask) ==
    LET v == masked_values(image, mask, 1)
    IN  IF Len(v) = 0 THEN [mean |-> Zero, std |-> Zero]
        ELSE [mean |-> FDiv(FSum(v, Len(v)), FromInt(Len(image))), std |-> np_std(v)]

\* the stat file: mean= and std= of the voxels the mask selects, 0.0 for an
\* empty selection. The file holds repr(x), which float() reads back as x.
calc_image_min_max_mean_std_3d_f(image, mask) ==
    LET v == masked_values(image, mask, 1)
    IN  IF Len(v) = 0 THEN [mean |-> Zero, std |-> Zero]
        ELSE [mean |-> np_mean(v), std |-> np_std(v)]

mean_pixel_value(img, mask) == calc_image_min_max_mean_std_3d_f(img, mask).mean

std_pixel_value(img, mask) == calc_image_min_max_mean_std_3d_f(img, mask).std

\* the volumes: VolumeSize voxels of integer pixel type
VolumeSize == 3

PixelValues == {-2, 0, 3, 5}

InitStat ==
    /\ \E img \in [1..VolumeSize -> PixelValues], mask \in [1..VolumeSize -> {0, 1}] :
          xin = [image |-> img, mask |-> mask]
    /\ xout = NoResults

ApplyStat ==
    /\ ~xout.done
    /\ xout' = [done |-> TRUE,
                mean |-> mean_pixel_value(xin.image, xin.mask),
                std  |-> std_pixel_value(xin.image, xin.mask)]
    /\ UNCHANGED xin

InitS ==
    /\ InitLife
    /\ queueUp
    /\ InitStat

NextS == ApplyStat /\ UNCHANGED <<lifeVars, dbVars>>

SpecStat == InitS /\ [][NextS]_vars

----------------------------------------------------------------------------
(* The backend's specification                                              *)

InitB ==
    /\ InitCases
    /\ queueUp
    /\ xin = [n |-> 0, masks |-> <<>>, fixed |-> A3, ref |-> A3, shift |-> 0]
    /\ xout = NoXfer
    /\ InitBackend

NextB ==
    \/ \E f \in FormIds, rules \in {<<>>, <<ReferenceRule>>} : upsert_form(f, rules)
    \/ \E f \in FormIds, v \in [{"temperature"} -> Temperatures], id \in SubIds,
          t \in SubmitTimes : submit_form(f, v, id, t)
    \/ \E r \in Requests, f \in FormIds, id \in SubIds \cup {BadId}, b \in BOOLEAN :
          set_baseline_find(r, f, id, b)
    \/ \E r \in Requests : set_baseline_unset_others(r)
    \/ \E r \in Requests : set_baseline_update(r)

SpecForms == InitB /\ [][NextB]_vars

----------------------------------------------------------------------------
(* CTQA.calc_relative_mtf                                                   *)

Half == RoundFloat(1, -1)

\* the first position (1-based) of v2 below 0.5, 0 if there is none
RECURSIVE FirstBelowHalf(_, _)
FirstBelowHalf(v2, k) ==
    IF k > Len(v2) THEN 0
    ELSE IF FLess(v2[k], Half) THEN k
    ELSE FirstBelowHalf(v2, k + 1)

MtfResult(err, rmtf, x) == [err |-> err, rmtf |-> rmtf, rmtf50 |-> x]

\* the files HC.RMTF.csv / HC.RMTF.calc.csv not written
NotWritten == <<>>

\* v1: the second line of HC.csv, the standard deviations in mask order. Float
\* division by zero raises; log_error raises when no sample is below 0.5; both
\* files are written after the interpolation.
calc_relative_mtf(v1) ==
    IF v1[1] = Zero THEN MtfResult("ZeroDivisionError", NotWritten, NotWritten)
    ELSE LET v2 == [k \in DOMAIN v1 |-> FDiv(v1[k], v1[1])]
             k  == FirstBelowHalf(v2, 1)
         IN  IF k = 0
             THEN MtfResult("calc_relative_mtf() - Failed finding 50% crossing!",
                            NotWritten, NotWritten)
             ELSE LET index_after_50percent == k - 1
                      y1 == v2[k - 1]
                      y2 == v2[k]
                      x1 == index_after_50percent - 1
                      x2 == index_after_50percent
                      a  == FDiv(FSub(y2, y1), FromInt(x2 - x1))
                      b  == FSub(y1, FMul(a, FromInt(x1)))
                      x  == IF a # Zero THEN FDiv(FSub(Half, b), a) ELSE Zero
                  IN  MtfResult("", v2, <<x>>)

\* the standard deviations: 0.0 (the statistics of an empty selection) and the
\* positive floats of two neighbouring exponents
StdValues ==
    {Zero} \cup { f \in SomeFloats : f.m > 0 }

\* HC.csv holds at most MaxMasks + 1 values
InitMtf ==
    /\ \E n \in 1..(MaxMasks + 1) : \E v \in [1..n -> StdValues] : xin = v
    /\ xout = NoResults

ApplyMtf ==
    /\ ~xout.done
    /\ xout' = [done |-> TRUE, res |-> calc_relative_mtf(xin)]
    /\ UNCHANGED xin

InitM ==
    /\ InitLife
    /\ queueUp
    /\ InitMtf

NextM == ApplyMtf /\ UNCHANGED <<lifeVars, dbVars>>

SpecMtf == InitM /\ [][NextM]_vars

----------------------------------------------------------------------------
(* CTQA.measure_dist: the distances between the centroids of a key's masks  *)

DistKeys == {"geo", "DT"}

\* f"{key}{i}"
mask_name(key, i) == <<key, i>>

\* f"{mask_name},{com}": a line of {key}.csv, the name and the three fields of
\* the centroid; float() reads each field back as the float that was written
point(key, i, com) == <<mask_name(key, i), com[1], com[2], com[3]>>

\* "label1->label2" and the root of the sum of the squared differences, summed
\* left to right
calculate_distance(pt1, pt2) ==
    LET dx == FSub(pt1[2], pt2[2])
        dy == FSub(pt1[3], pt2[3])
        dz == FSub(pt1[4], pt2[4])
    IN  [label |-> <<pt1[1], pt2[1]>>,
         dist  |-> FSqrt(FAdd(FAdd(FMul(dx, dx), FMul(dy, dy)), FMul(dz, dz)))]

\* a mutant of calculate_distances: the path is left open, without the
\* distance from the last point back to the first
calculate_distances_open(points) ==
    [i \in 1..(Len(points) - 1) |-> calculate_distance(points[i], points[i + 1])]

\* consecutive points, then the last point to the first
calculate_distances(points) ==
    [i \in 1..(Len(points) - 1) |-> calculate_distance(points[i], points[i + 1])]
    \o <<calculate_distance(points[Len(points)], points[1])>>

\* {key}.csv and the two lines of {key}.dist.csv, for the centroids that
\* center_of_mass returned for masks 1..num_of_masks
measure_dist(key, coms) ==
    LET points    == [i \in DOMAIN coms |-> point(key, i, coms[i])]
        dist_list == calculate_distances(points)
    IN  [csv    |-> points,
         labels |-> [i \in DOMAIN dist_list |-> dist_list[i].label],
         values |-> [i \in DOMAIN dist_list |-> dist_list[i].dist]]

\* centroids on a grid of whole millimetres
Centroids == {<<x, y, z>> : x \in 0..2, y \in 0..1, z \in 0..1}

InitDist ==
    /\ \E key \in DistKeys : \E n \in 1..(MaxMasks + 1) : \E c \in [1..n -> Centroids] :
          xin = [key |-> key, coms |-> c]
    /\ xout = NoResults

ApplyDist ==
    /\ ~xout.done
    /\ xout' = [done |-> TRUE,
                res  |-> measure_dist(xin.key,
                            [i \in DOMAIN xin.coms |->
                                [j \in 1..3 |-> FromInt(xin.coms[i][j])]])]
    /\ UNCHANGED xin

InitD ==
    /\ InitLife
    /\ queueUp
    /\ InitDist

NextD == ApplyDist /\ UNCHANGED <<lifeVars, dbVars>>

SpecDist == InitD /\ [][NextD]_vars

----------------------------------------------------------------------------
(* CTQA.center_of_mass: the crop around a mask, thresholded, and its centre *)
(* of gravity. A crop is a row of VolumeSize voxels along x: [origin,       *)
(* spacing, vals].                                                          *)

\* the level0, th, level1 that analyze passes to measure_dist for the key
DistArgs(key) ==
    IF key = "geo" THEN [level0 |-> FromInt(1), th |-> -500, level1 |-> Zero]
    ELSE                [level0 |-> Zero,       th |-> 200,  level1 |-> FromInt(1)]

\* a mutant of threshold_3d_f: a voxel at the threshold counts as below it
threshold_at_or_below(image_array, level0, th, level1) ==
    [i \in DOMAIN image_array |-> IF image_array[i] <= th THEN level0 ELSE level1]

\* np.where(image_array < th, level0, level1)
threshold_3d_f(image_array, level0, th, level1) ==
    [i \in DOMAIN image_array |-> IF image_array[i] < th THEN level0 ELSE level1]

\* the "Center of gravity" of the moments file: [0, 0, 0] for zero mass, else
\* origin + (sum of index * value / total mass) * spacing; the row has the
\* indices 0..size-1 along x and the index 0 along y and z
calc_image_moments_3d_f(img) ==
    LET n          == Len(img.vals)
        total_mass == FSum(img.vals, n)
        weighted   == [i \in 1..n |-> FMul(FromInt(i - 1), img.vals[i])]
        cog_x      == FDiv(FSum(weighted, n), total_mass)
        cog_0      == FDiv(Zero, total_mass)
    IN  IF total_mass = Zero THEN <<Zero, Zero, Zero>>
        ELSE <<FAdd(FromInt(img.origin[1]), FMul(cog_x, FromInt(img.spacing))),
               FAdd(FromInt(img.origin[2]), FMul(cog_0, FromInt(img.spacing))),
               FAdd(FromInt(img.origin[3]), FMul(cog_0, FromInt(img.spacing)))>>

\* the thresholded crop {key}.crop.mha.th.mha and the centroid read back from
\* its moments file
center_of_mass(crop, level0, th, level1) ==
    LET th_img == [crop EXCEPT !.vals = threshold_3d_f(crop.vals, level0, th, level1)]
    IN  [th_img |-> th_img, com |-> calc_image_moments_3d_f(th_img)]

\* CT numbers around the two thresholds
Intensities == {-1000, -501, -500, 0, 199, 200, 300}

CropOrigins == {<<0, 0, 0>>, <<1, 2, 0>>}

InitCom ==
    /\ \E key \in DistKeys : \E o \in CropOrigins :
       \E v \in [1..VolumeSize -> Intensities] :
          xin = [key |-> key, crop |-> [origin |-> o, spacing |-> 1, vals |-> v]]
    /\ xout = NoResults

ApplyCom ==
    /\ ~xout.done
    /\ LET a == DistArgs(xin.key)
       IN  xout' = [done |-> TRUE,
                    res  |-> center_of_mass(xin.crop, a.level0, a.th, a.level1)]
    /\ UNCHANGED xin

InitG ==
    /\ InitLife
    /\ queueUp
    /\ InitCom

NextG == ApplyCom /\ UNCHANGED <<lifeVars, dbVars>>

SpecCom == InitG /\ [][NextG]_vars

----------------------------------------------------------------------------
(* One section of the result as report.html and analysis_results.json show  *)
(* it: the tolerance and the number of rows each of the two reads from the  *)
(* machine parameters                                                       *)

TolKeys ==
    <<"HU_tol", "geo_tol", "DT_tol", "UF_tol", "UF.uniformity_tol", "LC_tol",
      "HC_RMTF_tol", "HC_RMTF50_tol">>

\* the parameter whose value collect_analysis_results passes as tol
json_tol_key(section) ==
    CASE section = "hu_consistency"                -> "HU_tol"
      [] section = "geometric_accuracy_inplane"    -> "geo_tol"
      [] section = "geometric_accuracy_outofplane" -> "DT_tol"
      [] section = "uniformity_hu"                 -> "UF_tol"
      [] section = "uniformity_integral"           -> "UF.uniformity_tol"
      [] section = "low_contrast"                  -> "LC_tol"
      [] section = "high_contrast_rmtf"            -> "HC_RMTF_tol"
      [] section = "high_contrast_rmtf50"          -> "HC_RMTF50_tol"

\* the parameter whose value report passes as tol: f"{key}_tol" in
\* gen_html_table_rows_from_csv_key, the three floats read at 892-894 otherwise
html_tol_key(section) ==
    CASE section = "hu_consistency"                -> "HU_tol"
      [] section = "geometric_accuracy_outofplane" -> "DT_tol"
      [] section = "geometric_accuracy_inplane"    -> "geo_tol"
      [] section = "uniformity_hu"                 -> "UF_tol"
      [] section = "uniformity_integral"           -> "UF.uniformity_tol"
      [] section = "low_contrast"                  -> "LC_tol"
      [] section = "high_contrast_rmtf"            -> "HC_RMTF_tol"
      [] section = "high_contrast_rmtf50"          -> "HC_RMTF50_tol"

\* num_of_masks as collect_analysis_results passes it, num being the section's
\* num_of_<key>_masks
json_num(section, num) ==
    IF section \in {"uniformity_integral", "high_contrast_rmtf50"} THEN 1 ELSE num

\* num_of_masks as report passes it
html_num(section, num) ==
    IF section \in {"uniformity_integral", "high_contrast_rmtf50"} THEN 1
    ELSE IF section = "high_contrast_rmtf" THEN HcRmtfRows
    ELSE num

\* "<section>": {"tolerance": ..., "results": collect_csv_results(...)}
section_results(param, section, csv) ==
    [tolerance |-> param.tol[json_tol_key(section)],
     results   |-> collect_csv_results(csv, json_num(section, param.num),
                                       param.tol[json_tol_key(section)])]

\* the {{{<key>_tol}}} cell and the table rows of the section in report.html
section_rows(param, section, csv) ==
    [tolerance |-> param.tol[html_tol_key(section)],
     table     |-> gen_html_table_rows_from_csv(csv, html_num(section, param.num),
                                                param.tol[html_tol_key(section)])]

\* two parameter files: any two tolerance keys differ in one of them
TolTables ==
    { [k \in {TolKeys[i] : i \in 1..Len(TolKeys)} |->
          LET i == CHOOSE j \in 1..Len(TolKeys) : TolKeys[j] = k
          IN  IF t = 1 THEN 1 + ((i - 1) \div 3) ELSE 1 + ((i - 1) % 3)] : t \in 1..2 }

\* num_of_<key>_masks: MaxMasks, and for the high contrast masks also the row
\* count of the report's table and one more
Nums(section) ==
    IF section = "high_contrast_rmtf" THEN {MaxMasks, HcRmtfRows, HcRmtfRows + 1}
    ELSE {MaxMasks}

\* a CSV line of len cells: the first MaxMasks cells from cells, 0 after them
Line(len, cells) == [i \in 1..len |-> IF i \in DOMAIN cells THEN cells[i] ELSE 0]

InitJudge ==
    /\ \E k \in 1..Len(SectionKeys) : \E tol \in TolTables : \E num \in Nums(SectionKeys[k]) :
       \E base \in [1..MinOf({MaxMasks, json_num(SectionKeys[k], num)}) -> {0, 1}] :
       \E diff \in [DOMAIN base -> -3..3] :
          LET len == json_num(SectionKeys[k], num)
          IN  xin = [section |-> SectionKeys[k],
                     param   |-> [tol |-> tol, num |-> num],
                     csv     |-> [file0 |-> TRUE, file1 |-> TRUE,
                                  values0 |-> Line(len, base),
                                  values1 |-> Line(len, [i \in DOMAIN base |->
                                                            base[i] + diff[i]])]]
    /\ xout = NoResults

ApplyJudge ==
    /\ ~xout.done
    /\ xout' = [done |-> TRUE,
                json |-> section_results(xin.param, xin.section, xin.csv),
                html |-> section_rows(xin.param, xin.section, xin.csv)]
    /\ UNCHANGED xin

InitJ ==
    /\ InitLife
    /\ queueUp
    /\ InitJudge

NextJ == ApplyJudge /\ UNCHANGED <<lifeVars, dbVars>>

SpecJudge == InitJ /\ [][NextJ]_vars

----------------------------------------------------------------------------
(* forms.move_form: the form/folder hierarchy. Of a document of the forms   *)
(* collection the handler reads type and parentId; every await is a step.   *)

Folders == {"A", "B", "C"}

Items == Folders \cup {"form1"}

\* parentId of an item of the root
Root == ""

\* an id that no document has
Missing == "missing"

item_doc(id, parentId) ==
    [type |-> IF id \in Folders THEN "folder" ELSE "form", parentId |-> parentId]

IdleMove == [pc |-> "idle", form_id |-> "", new_parent_id |-> "", type |-> "", current |-> ""]

\* the loop of lines 81-87 from `current` on, in a database that does not
\* change: whether it meets form_id; steps bounds the walk
RECURSIVE WalkMeets(_, _, _, _)
WalkMeets(docs, current, form_id, steps) ==
    IF current = Root \/ steps = 0 THEN FALSE
    ELSE IF current = form_id THEN TRUE
    ELSE IF current \notin DOMAIN docs THEN FALSE
    ELSE WalkMeets(docs, docs[current].parentId, form_id, steps - 1)

\* no item is its own parent or its own ancestor
Acyclic(docs) ==
    \A id \in DOMAIN docs :
        ~WalkMeets(docs, docs[id].parentId, id, Cardinality(DOMAIN docs))

\* lines 62-64: find_one of the item
move_find_item(r, form_id, new_parent_id) ==
    /\ IsFirstIdleReq(r)
    /\ IF form_id \notin DOMAIN forms
       THEN /\ bresp' = BackendResponse("move", 404, [detail |-> "Form or folder not found"])
            /\ UNCHANGED reqs
       ELSE /\ reqs' = [reqs EXCEPT ![r] =
                          [pc |-> IF new_parent_id = Root THEN "update" ELSE "find_parent",
                           form_id |-> form_id, new_parent_id |-> new_parent_id,
                           type |-> forms[form_id].type, current |-> ""]]
            /\ UNCHANGED bresp
    /\ UNCHANGED <<forms, submissions, lifeVars, xin, xout>>

\* lines 67-82: find_one of the target, the checks on it, and the entry of the
\* loop up to its first find_one
move_find_parent(r) ==
    /\ reqs[r].pc = "find_parent"
    /\ LET q == reqs[r]
           reject(code, detail) ==
               /\ bresp' = BackendResponse("move", code, [detail |-> detail])
               /\ reqs' = [reqs EXCEPT ![r] = IdleMove]
       IN  IF q.new_parent_id \notin DOMAIN forms
           THEN reject(404, "Target folder not found")
           ELSE IF forms[q.new_parent_id].type # "folder"
           THEN reject(400, "Target must be a folder")
           ELSE IF q.form_id = q.new_parent_id
           THEN reject(400, "Cannot move folder into itself")
           ELSE /\ reqs' = [reqs EXCEPT ![r].pc = IF q.type = "folder" THEN "walk" ELSE "update",
                                        ![r].current = q.new_parent_id]
                /\ UNCHANGED bresp
    /\ UNCHANGED <<forms, submissions, lifeVars, xin, xout>>

\* lines 84-87 and 81-83: find_one of current, current = its parentId, and the
\* loop's tests on the new current
move_walk(r) ==
    /\ reqs[r].pc = "walk"
    /\ LET q == reqs[r]
           next == IF q.current \in DOMAIN forms THEN forms[q.current].parentId ELSE Root
       IN  IF next = Root
           THEN /\ reqs' = [reqs EXCEPT ![r].pc = "update", ![r].current = Root]
                /\ UNCHANGED bresp
           ELSE IF next = q.form_id
           THEN /\ bresp' = BackendResponse("move", 400,
                               [detail |-> "Cannot move folder into its own descendant"])
                /\ reqs' = [reqs EXCEPT ![r] = IdleMove]
           ELSE /\ reqs' = [reqs EXCEPT ![r].current = next]
                /\ UNCHANGED bresp
    /\ UNCHANGED <<forms, submissions, lifeVars, xin, xout>>

\* lines 90-95: update_one and the response
move_update(r) ==
    /\ reqs[r].pc = "update"
    /\ forms' = [id \in DOMAIN forms |->
                   IF id = reqs[r].form_id
                   THEN [forms[id] EXCEPT !.parentId = reqs[r].new_parent_id]
                   ELSE forms[id]]
    /\ bresp' = BackendResponse("move", 200,
                   [status |-> "ok", formId |-> reqs[r].form_id,
                    parentId |-> reqs[r].new_parent_id])
    /\ reqs' = [reqs EXCEPT ![r] = IdleMove]
    /\ UNCHANGED <<submissions, lifeVars, xin, xout>>

\* an acyclic hierarchy of the items; no request has begun
InitMove ==
    /\ \E parent \in [Items -> Folders \cup {Root}] :
          /\ forms = [id \in Items |-> item_doc(id, parent[id])]
          /\ Acyclic(forms)
    /\ submissions = <<>>
    /\ reqs = [r \in Requests |-> IdleMove]
    /\ bresp = BackendResponse("", 0, NoBody)

InitV ==
    /\ InitCases
    /\ queueUp
    /\ xin = [n |-> 0, masks |-> <<>>, fixed |-> A3, ref |-> A3, shift |-> 0]
    /\ xout = NoXfer
    /\ InitMove

NextV ==
    \/ \E r \in Requests, f \in Items \cup {Missing}, p \in Items \cup {Root, Missing} :
          move_find_item(r, f, p)
    \/ \E r \in Requests : move_find_parent(r)
    \/ \E r \in Requests : move_walk(r)
    \/ \E r \in Requests : move_update(r)

SpecMove == InitV /\ [][NextV]_vars

----------------------------------------------------------------------------
(* create_case and upload_file_to_case on their own: several cases of the   *)
(* devices, also created within one second                                  *)

\* the number of create_case calls that succeed
MaxCases == 3

NextC ==
    \/ \E d \in Devices, dt \in {0, 1} : create_case_upto(d, dt, MaxCases)
    \/ \E d \in Devices, c \in CaseIds, f \in FileNames : upload_file_to_case(d, c, f)

SpecCases == Init /\ [][NextC]_vars

----------------------------------------------------------------------------
(* get_job_result (main.py 272-317): the answer for a job id, read off the   *)
(* job store and the disk                                                  *)

\* main.py 283-317: dirs are the case directories on disk, rep the cases whose
\* 3.analysis holds the report
get_job_result(js, dirs, rep, job_id) ==
    LET i == ByJobId(js, job_id)
    IN  IF i = 0 THEN [code |-> 404, detail |-> "Job not found"]
        ELSE IF js[i].status # "completed"
        THEN [code |-> 400, detail |-> "Job is not completed"]
        ELSE IF js[i].result_dir = NoSlot \/ js[i].result_dir \notin dirs
        THEN [code |-> 404, detail |-> "Result not found"]
        ELSE IF js[i].result_dir \notin rep
        THEN [code |-> 404, detail |-> "Report file not found"]
        ELSE [code |-> 200, detail |-> ""]

----------------------------------------------------------------------------
(* Properties                                                              *)

\* the job record of case s as the handlers address it, 0 if there is none
RecOf(js, s) == ByCase(js, s[1], s[2])

\* a run between its processing write and its terminal status write
InProgress(w) == wk[w].pc \in {"convert", "run", "completed", "exc_log", "exc_status"}

IsPrefix(a, b) == Len(a) <= Len(b) /\ \A i \in 1..Len(a) : a[i] = b[i]

StageOrder ==
    <<"ingest", "register", "HU", "UF", "HC", "LC", "geo", "DT", "measure", "report">>

\* the moves of the status the state machine allows: forward by one state, or
\* directly to failed from a state that is not terminal
Forward(a, b) ==
    \/ a = b
    \/ a = "uploading" /\ b = "queued"
    \/ a = "queued" /\ b = "processing"
    \/ a = "processing" /\ b = "completed"
    \/ a \in {"uploading", "queued", "processing"} /\ b = "failed"

\* C1: in every step the status of every job record stays or moves forward
\* through uploading -> queued -> processing -> {completed | failed}; it never
\* goes back and skips no state except by going directly to failed.
C1_StatusOnlyMovesForward ==
    [][\A i \in 1..Len(jobs) :
          i <= Len(jobs') => Forward(jobs[i].status, jobs'[i].status)]_vars

\* C2: start_case_analysis on an existing case with no file in 0.inputs answers
\* 400 and changes nothing else: no record is touched, nothing is enqueued, no
\* call of the pipeline is started or pending.
C2_StartOnEmptyCaseRejected ==
    [][\A d \in Devices, c \in CaseIds :
          (start_case_analysis(d, c) /\ <<d, c>> \in inputsDir /\ files[<<d, c>>] = {})
          => /\ resp' = Response("start", 400, FALSE)
             /\ UNCHANGED <<clock, devDirs, inputsDir, files, ctMhd, reports, log, jobs,
                            queue, sync, raised, wk, runs>>]_vars

C2_Witness ==
    /\ resp = Response("start", 400, FALSE)
    /\ \E s \in inputsDir : files[s] = {} /\ RecOf(jobs, s) # 0
                            /\ jobs[RecOf(jobs, s)].status = "uploading"

C4_ExceptionEndsRunFailed ==
    [][\A w \in Workers :
          /\ wk[w].exc # "" => wk[w].pc \in {"exc_log", "exc_status"}
          /\ (wk[w].pc = "exc_log" /\ wk'[w] # wk[w])
             => /\ wk'[w].pc = "exc_status"
                /\ wk'[w].exc = wk[w].exc
                /\ wk[w].exc \in log'[wk[w].slot]
                /\ jobs' = jobs
          /\ (wk[w].pc = "exc_status" /\ wk'[w] # wk[w])
             => /\ wk'[w].pc = "idle"
                /\ LET i == ByJobId(jobs', wk[w].slot[2])
                   IN  /\ i # 0
                       /\ jobs'[i].status = "failed"
                       /\ jobs'[i].error = wk[w].exc
                /\ <<wk[w].ctx, wk[w].slot>> \in raised']_vars

C4_Witness ==
    \E s \in inputsDir :
       /\ <<"cli", s>> \in raised
       /\ RecOf(jobs, s) # 0
       /\ jobs[RecOf(jobs, s)].status = "failed"
       /\ jobs[RecOf(jobs, s)].error = "Registration failed"
       /\ "Registration failed" \in log[s]

\* the voxels of mask m
VoxelSet(m) == { j \in DOMAIN m.vox : InMask(m.vox[j]) }

\* the premise of the round trip: n >= 1 masks on one grid, none empty, no two
\* sharing a voxel, the identity transform, and the case volume on the same grid
RoundTripInput(in) ==
    /\ in.n >= 1
    /\ \A i \in 1..in.n : in.masks[i].geom = in.masks[1].geom /\ VoxelSet(in.masks[i]) # {}
    /\ \A i, k \in 1..in.n : i # k => VoxelSet(in.masks[i]) \cap VoxelSet(in.masks[k]) = {}
    /\ in.shift = 0
    /\ in.fixed = in.masks[1].geom
    /\ in.ref = in.fixed

\* C5: for n pairwise disjoint, non-empty masks of one geometry, the composite
\* encoding followed by the decoding under the identity transform succeeds and
\* writes exactly n masks, mask i with label i and exactly the voxels of the
\* i-th original.
C5_CompositeRoundTrip ==
    (xout.done /\ RoundTripInput(xin))
    => /\ xout.err = ""
       /\ Len(xout.written) = xin.n
       /\ \A i \in 1..xin.n :
             /\ xout.written[i].label = i
             /\ VoxelSet(xout.written[i]) = VoxelSet(xin.masks[i])
             /\ Cardinality(VoxelSet(xout.written[i])) = Cardinality(VoxelSet(xin.masks[i]))

C5_Witness ==
    /\ xout.done
    /\ RoundTripInput(xin)
    /\ xin.n = 2
    /\ Cardinality(VoxelSet(xin.masks[1])) = 2
    /\ Len(xout.written) = 2

\* C6: every mask transfer_masks writes has the spacing, origin and size of the
\* fixed volume, and a transfer whose resampled composite has another geometry
\* than the fixed volume fails and writes no mask.
C6_WrittenMasksHaveFixedGeometry ==
    xout.done
    => /\ \A i \in 1..Len(xout.written) :
             /\ xout.written[i].geom.spacing = xin.fixed.spacing
             /\ xout.written[i].geom.origin = xin.fixed.origin
             /\ xout.written[i].geom.size = xin.fixed.size
             /\ DOMAIN xout.written[i].vox = 1..xin.fixed.size
       /\ (xout.tr # NoImage /\ xout.tr.geom # xin.fixed)
          => xout.err # "" /\ xout.written = <<>>

C6_Witness ==
    /\ xout.done
    /\ xout.tr # NoImage
    /\ xout.tr.geom # xin.fixed
    /\ xout.err = "Transformed composite geometry mismatch"
    /\ xout.written = <<>>

\* C7: a run in which a transfer found a label with no voxel in its band is on
\* the exception path with the empty-mask error, has started neither the
\* measurements nor the report, and ends with the record of its job id failed.
C7_EmptyMaskIsFatal ==
    [][\A w \in Workers :
          wk[w].sawEmpty
          => /\ wk[w].pc \in {"exc_log", "exc_status"}
             /\ wk[w].exc = "Transferred mask is empty"
             /\ \A i \in 1..Len(wk[w].hist) : wk[w].hist[i] \notin {"measure", "report"}
             /\ wk'[w] # wk[w]
                => /\ wk'[w].pc \in {"exc_status", "idle"}
                   /\ wk'[w].pc = "idle"
                      => LET i == ByJobId(jobs', wk[w].slot[2])
                         IN  i # 0 /\ jobs'[i].status = "failed"]_vars

C7_Witness ==
    \E w \in Workers :
       /\ wk[w].sawEmpty
       /\ wk[w].pc = "exc_status"
       /\ wk[w].hist[Len(wk[w].hist)] = "HC"

\* C8: upload_file_to_case on a case without 0.inputs answers 404 and changes
\* neither the directories and files on disk nor any job record; on an existing
\* case it stores the file and adds exactly 1 to the case's file_count.
C8_AddFileContract ==
    [][\A d \in Devices, c \in CaseIds, f \in FileNames :
          upload_file_to_case(d, c, f)
          => IF <<d, c>> \notin inputsDir
             THEN /\ resp' = Response("upload", 404, FALSE)
                  /\ UNCHANGED <<devDirs, inputsDir, files, ctMhd, reports, log, jobs>>
             ELSE /\ f \in files'[<<d, c>>]
                  /\ RecOf(jobs, <<d, c>>) # 0
                     => jobs'[RecOf(jobs, <<d, c>>)].file_count
                           = jobs[RecOf(jobs, <<d, c>>)].file_count + 1]_vars

\* C9: no two runs of process_ctqa_analysis on the same case are at the same
\* time between their processing write and their terminal status write.
C9_OneRunPerCase ==
    \A w1, w2 \in Workers :
       (w1 # w2 /\ InProgress(w1) /\ InProgress(w2)) => wk[w1].slot # wk[w2].slot

\* the stages whose failure has the message msg; {} for the messages of the
\* checks made before a stage starts
StagesRaising(msg) ==
    CASE msg = "No DICOM files found" -> {"ingest"}
      [] msg = "Registration failed" -> {"register"}
      [] msg = "Transferred mask is empty" -> {"HU", "UF", "HC", "LC", "geo", "DT"}
      [] msg = "calc_relative_mtf() - Failed finding 50% crossing!" -> {"measure"}
      [] msg = "report template not found" -> {"report"}
      [] OTHER -> {}

\* C10 as stated: the stages a run has started are always an initial part of
\* ingest, register, the six transfers, measure, report.
C10_EveryRunStartsWithIngest ==
    \A w \in Workers : IsPrefix(wk[w].hist, StageOrder)

\* C10: the stages a run has started are an initial part of the fixed order,
\* with ingest left out exactly when CT.mhd existed at the conversion step; a
\* run that goes on to the completed write has started all of them, and a run
\* in which a stage failed has started no stage after the failed one.
C10_StagesInOrder ==
    [][\A w \in Workers :
          /\ IsPrefix(wk[w].hist, StageOrder) \/ IsPrefix(wk[w].hist, Tail(StageOrder))
          /\ (wk[w].pc = "convert" /\ wk'[w].pc = "run")
             => wk'[w].hist = IF wk[w].slot \in ctMhd THEN <<>> ELSE <<"ingest">>
          /\ wk[w].pc \in {"completed", "save"}
             => wk[w].hist \in {StageOrder, Tail(StageOrder)}
          /\ (wk[w].exc # "" /\ StagesRaising(wk[w].exc) # {})
             => /\ wk[w].hist # <<>>
                /\ wk[w].hist[Len(wk[w].hist)] \in StagesRaising(wk[w].exc)
          /\ (wk[w].exc # "" /\ wk'[w].pc # "idle") => wk'[w].hist = wk[w].hist]_vars

C10_Witness ==
    \E w \in Workers :
       /\ wk[w].pc = "completed"
       /\ wk[w].hist = Tail(StageOrder)
       /\ wk[w].slot \in ctMhd

\* C11: overall_passed of the analysis result is true if and only if every
\* measurement of every section of the result has passed = true.
C11_OverallPassedIsConjunction ==
    xout.done
    => (xout.overall_passed
        <=> \A s \in DOMAIN xout.sections :
               \A i \in DOMAIN xout.sections[s].results :
                  xout.sections[s].results[i].passed)

\* a result whose only failed measurement is the last one of the last section
C11_Witness ==
    /\ xout.done
    /\ ~xout.overall_passed
    /\ \A s \in DOMAIN xout.sections :
          s # "high_contrast_rmtf50" =>
             /\ Len(xout.sections[s].results) = num_of_masks(s)
             /\ \A i \in DOMAIN xout.sections[s].results : xout.sections[s].results[i].passed
    /\ Len(xout.sections["high_contrast_rmtf50"].results) = 1
    /\ ~xout.sections["high_contrast_rmtf50"].results[1].passed

\* C12: the JSON document and the HTML report are produced independently: when
\* report.html is not rendered or written, analysis_results.json is still
\* written (if it can be serialized), and when the JSON serialization fails,
\* report.html is still written (if it can be rendered).
C12_ArtifactsIndependent ==
    xout.done
    => /\ (~xout.html.written /\ xin.json_ok)
             => (xout.json.written /\ xout.json.complete)
       /\ (xout.err = "json.dump failed" /\ xin.template
           /\ RenderFrom(xin.csvs, 1, [s \in DOMAIN xin.csvs |-> <<>>]).err = "")
             => xout.html.written

\* report.html and analysis_results.json of case s exist and every run that
\* wrote them has gone on to its completed write (worker.py 202)
ReportsOfCompleted(s) ==
    /\ s \in reports
    /\ RecOf(jobs, s) # 0
    /\ \A w \in Workers : ~(wk[w].slot = s /\ wk[w].pc = "completed")

\* this step is a run() of worker w that returns: its last stage, report, has
\* written report.html and analysis_results.json into the case's 3.analysis
ReportStep(w) ==
    /\ wk[w].pc = "run"
    /\ wk'[w].pc = "completed"
    /\ Len(wk'[w].hist) > 0
    /\ wk'[w].hist[Len(wk'[w].hist)] = "report"

\* C13: report.html and analysis_results.json are write-once: once they have
\* been written for a case that reached completed, no later step of the
\* pipeline writes them again.
C13_ReportsWriteOnce ==
    [][\A w \in Workers : ReportsOfCompleted(wk[w].slot) => ~ReportStep(w)]_vars

\* C14 as stated: for every value list with max + min # 0 and every k > 0,
\* INU(k*v) = INU(v).
C14_InuScaleInvariant ==
    (xout.done /\ xout.of_v.err = "")
    => (xout.of_kv.err = "" /\ xout.of_kv.inu = xout.of_v.inu)

\* C14, amended: for every value list with max + min # 0 and every k that is a
\* power of two, INU(k*v) = INU(v).
C14_InuInvariantUnderPowersOfTwo ==
    (xout.done /\ xout.of_v.err = "" /\ IsPowerOfTwo(xin.k))
    => (xout.of_kv.err = "" /\ xout.of_kv.inu = xout.of_v.inu)

\* values of different magnitude, scaled by 1/2, with a non-zero INU
C14_Witness ==
    /\ xout.done
    /\ xin.k = RoundFloat(1, -1)
    /\ xin.values[1].e # xin.values[2].e
    /\ xout.of_v.err = ""
    /\ xout.of_v.inu # Zero
    /\ xout.of_kv.inu = xout.of_v.inu

C16_OneBaselinePerForm ==
    (\A r \in Requests : reqs[r].pc = "idle")
    => \A f \in FormIds : Baselines(f) <= 1

\* C17: submitting values to a form whose pass_fail rule compares a field to a
\* reference with mode last answers with computed.result = PASS exactly when the
\* comparison holds against that field of the most recent submission of the
\* referenced form, FAIL otherwise, and with referencesUsed mapping the key
\* <formId>.<field>.last to the referenced value.
C17_SubmitEvaluatesReferenceRule ==
    [][\A f \in FormIds, v \in [{"temperature"} -> Temperatures], id \in SubIds,
          t \in SubmitTimes :
          (/\ submit_form(f, v, id, t)
           /\ f \in DOMAIN forms
           /\ forms[f].rules = <<ReferenceRule>>)
          => /\ bresp'.code = 200
             /\ "computed" \in DOMAIN bresp'.body
             /\ "referencesUsed" \in DOMAIN bresp'.body
             /\ \E e \in evaluate_rules(forms[f].rules, v, submissions) :
                   /\ bresp'.body.computed.result = IF e.passed_all THEN "PASS" ELSE "FAIL"
                   /\ bresp'.body.referencesUsed = e.references_used]_vars

\* the voxels of mask i that no mask with a larger index selects
NotOverwritten(in, i) ==
    VoxelSet(in.masks[i]) \ UNION { VoxelSet(in.masks[k]) : k \in (i + 1)..in.n }

\* n >= 1 masks on the grid of the case volume, and the identity transform
IdentityInput(in) ==
    /\ in.n >= 1
    /\ \A i \in 1..in.n : in.masks[i].geom = in.fixed
    /\ in.ref = in.fixed
    /\ in.shift = 0

\* C18: each voxel of the composite holds the largest index i in 1..N whose mask
\* exceeds 0.5 there, 0 if there is none; and under the identity transform the
\* decoded mask i is mask i minus the union of the masks with a larger index.
C18_LaterMaskOverwrites ==
    (xout.done /\ xout.comp # NoImage)
    => /\ \A j \in DOMAIN xout.comp.vox :
             LET hit == { i \in 1..xin.n : 2 * xin.masks[i].vox[j] > 1 }
             IN  /\ hit = {} => xout.comp.vox[j] = 0
                 /\ hit # {} => /\ xout.comp.vox[j] \in hit
                                /\ \A i \in hit : i <= xout.comp.vox[j]
       /\ IdentityInput(xin)
          => /\ \A i \in 1..xin.n :
                   { j \in DOMAIN xout.tr.vox : DecodeBand(xout.tr.vox, i)[j] = 1 }
                      = NotOverwritten(xin, i)
             /\ \A i \in 1..Len(xout.written) :
                   VoxelSet(xout.written[i]) = NotOverwritten(xin, i)

\* two overlapping masks under the identity: the first is written without the
\* voxels the second one took
C18_Witness ==
    /\ xout.done
    /\ IdentityInput(xin)
    /\ xin.n = 2
    /\ VoxelSet(xin.masks[1]) \cap VoxelSet(xin.masks[2]) # {}
    /\ Len(xout.written) = 2
    /\ VoxelSet(xout.written[1]) # VoxelSet(xin.masks[1])
    /\ VoxelSet(xout.written[1]) = VoxelSet(xin.masks[1]) \ VoxelSet(xin.masks[2])

\* C19: if any of the N baseline masks differs from the first one in spacing,
\* origin or size, transfer_masks fails with the mask geometry mismatch error
\* before the composite is built: no composite is written, nothing is resampled
\* and no transferred mask is written.
C19_GeometryMismatchStopsTransfer ==
    (/\ xout.done
     /\ \E i \in 1..xin.n : xin.masks[i].geom # xin.masks[1].geom)
    => /\ xout.err = "Mask geometry mismatch"
       /\ xout.comp = NoImage
       /\ xout.tr = NoImage
       /\ xout.written = <<>>

\* the second of two masks sits on a grid with another origin
C19_Witness ==
    /\ xout.done
    /\ xin.n = 2
    /\ xin.masks[2].geom.origin # xin.masks[1].geom.origin
    /\ xin.masks[1].geom = xin.fixed
    /\ VoxelSet(xin.masks[1]) # {} /\ VoxelSet(xin.masks[2]) # {}
    /\ xout.err = "Mask geometry mismatch"
    /\ xout.written = <<>>

\* the samples r_j = std_j / std_1 of the input, and the 0-based index of the
\* first one below 0.5 (-1 if there is none)
Relative(v1) == [k \in DOMAIN v1 |-> FDiv(v1[k], v1[1])]

FirstBelow(v1) ==
    LET below == { k \in DOMAIN v1 : FLess(Relative(v1)[k], Half) }
    IN  IF below = {} THEN -1 ELSE MinOf(below) - 1

\* C20: with r_j = std_j / std_1, if no r_j is below 0.5 the computation fails
\* with the no-crossing error and writes no RMTF-50 value; otherwise the
\* reported RMTF-50 position lies in [i-1, i), i the 0-based index of the
\* first sample below 0.5.
C20_Rmtf50WithinCrossingInterval ==
    (xout.done /\ xin[1] # Zero)
    => LET i == FirstBelow(xin)
       IN  IF i = -1
           THEN /\ xout.res.err = "calc_relative_mtf() - Failed finding 50% crossing!"
                /\ xout.res.rmtf50 = NotWritten
           ELSE /\ xout.res.err = ""
                /\ Len(xout.res.rmtf50) = 1
                /\ ~FLess(xout.res.rmtf50[1], FromInt(i - 1))
                /\ FLess(xout.res.rmtf50[1], FromInt(i))

\* the exact squared distance of two grid points
SquaredDistance(p, q) ==
    (p[1] - q[1]) * (p[1] - q[1]) + (p[2] - q[2]) * (p[2] - q[2])
        + (p[3] - q[3]) * (p[3] - q[3])

\* the float d is the root of the integer s to within one unit of d's last place
IsRootOf(d, s) ==
    IF s = 0 THEN d = Zero
    ELSE /\ d.m > 0
         /\ IF d.e >= 0
            THEN /\ (d.m - 1) * (d.m - 1) * 4^(d.e) <= s
                 /\ s <= (d.m + 1) * (d.m + 1) * 4^(d.e)
            ELSE /\ (d.m - 1) * (d.m - 1) <= s * 4^(-d.e)
                 /\ s * 4^(-d.e) <= (d.m + 1) * (d.m + 1)

\* C21: for a distance key with N >= 1 masks and centroids p_1..p_N, measure_dist
\* writes exactly N distances in mask order: |p_i - p_(i+1)| labelled
\* key_i->key_(i+1) for i = 1..N-1, then the wraparound |p_N - p_1| labelled
\* key_N->key_1.
C21_DistancesAroundTheLoop ==
    xout.done
    => LET n    == Len(xin.coms)
           next(i) == IF i < n THEN i + 1 ELSE 1
       IN  /\ Len(xout.res.labels) = n
           /\ Len(xout.res.values) = n
           /\ \A i \in 1..n :
                /\ xout.res.labels[i] = <<<<xin.key, i>>, <<xin.key, next(i)>>>>
                /\ IsRootOf(xout.res.values[i],
                            SquaredDistance(xin.coms[i], xin.coms[next(i)]))

\* three masks whose three distances differ, the wraparound among them
C21_Witness ==
    /\ xout.done
    /\ Len(xin.coms) = 3
    /\ xout.res.values[3] # Zero
    /\ xout.res.values[3] # xout.res.values[1]
    /\ xout.res.values[3] # xout.res.values[2]
    /\ xout.res.values[1] # xout.res.values[2]
    /\ SquaredDistance(xin.coms[3], xin.coms[1]) = 5

\* the numeric cutoff of a distance key
Cutoff(key) == IF key = "geo" THEN -500 ELSE 200

TolKeyOf(section) ==
    CASE section = "hu_consistency"                -> "HU_tol"
      [] section = "geometric_accuracy_inplane"    -> "geo_tol"
      [] section = "geometric_accuracy_outofplane" -> "DT_tol"
      [] section = "uniformity_hu"                 -> "UF_tol"
      [] section = "uniformity_integral"           -> "UF.uniformity_tol"
      [] section = "low_contrast"                  -> "LC_tol"
      [] section = "high_contrast_rmtf"            -> "HC_RMTF_tol"
      [] section = "high_contrast_rmtf50"          -> "HC_RMTF50_tol"

\* measurement i of the section is within the tolerance of its key
Within(i) ==
    Abs(xin.csv.values1[i] - xin.csv.values0[i]) < xin.param.tol[TolKeyOf(xin.section)]

\* C23: every measurement is judged against the baseline value at the same
\* position with the tolerance configured for its key: difference = value -
\* baseline, and passed holds iff |difference| < tolerance, strictly, in the
\* result document and in the report's table alike.
C23_JudgedStrictlyWithinKeyTolerance ==
    xout.done
    => /\ \A i \in DOMAIN xout.json.results :
             LET r == xout.json.results[i]
             IN  /\ r.difference = xin.csv.values1[i] - xin.csv.values0[i]
                 /\ r.tolerance = xin.param.tol[TolKeyOf(xin.section)]
                 /\ r.passed <=> Within(i)
       /\ xout.html.table.err = ""
          => \A i \in DOMAIN xout.html.table.rows :
                LET row == xout.html.table.rows[i]
                IN  /\ row.diff = xin.csv.values1[i] - xin.csv.values0[i]
                    /\ (row.pass_fail = "Pass") <=> Within(i)

\* a section with one measurement off by exactly its tolerance, failed in both
\* artifacts, and another one inside the tolerance, passed in both
C23_Witness ==
    /\ xout.done
    /\ xout.html.table.err = ""
    /\ xin.param.tol[TolKeyOf(xin.section)] = 2
    /\ Len(xout.json.results) >= 2
    /\ Abs(xout.json.results[1].difference) = 2
    /\ ~xout.json.results[1].passed
    /\ xout.html.table.rows[1].pass_fail = "Fail"
    /\ Abs(xout.json.results[2].difference) = 1
    /\ xout.json.results[2].passed
    /\ xout.html.table.rows[2].pass_fail = "Pass"

\* C24: starting from an acyclic form/folder hierarchy, after any sequence of
\* move_form requests, two interleaved ones included, the hierarchy is still
\* acyclic: no folder is its own parent or its own ancestor.
C24_HierarchyStaysAcyclic == Acyclic(forms)

\* this step ends the worker's invocation of the queued call for case s: the
\* call returns, or its exception reaches RQ
QueuedInvocationEnds(s) ==
    \/ <<"queue", s>> \notin raised /\ <<"queue", s>> \in raised'
    \/ \E w \in Workers :
          /\ wk[w].ctx = "queue"
          /\ wk[w].slot = s
          /\ wk[w].pc # "idle"
          /\ wk'[w].pc = "idle"

\* C25: every job that start_case_analysis hands to the queue and that a worker
\* picks up reaches completed or failed: when the worker's invocation for it
\* has ended, its status is not left at queued or processing.
C25_PickedUpJobEndsTerminal ==
    [][\A s \in Slots :
          QueuedInvocationEnds(s)
          => /\ RecOf(jobs', s) # 0
             /\ jobs'[RecOf(jobs', s)].status \in {"completed", "failed"}]_vars

\* the run of worker w is past its completed write (worker.py 202): at
\* save_result_to_db, or in the except clause that save_result_to_db raised into
HasWrittenCompleted(w) ==
    \/ wk[w].pc = "save"
    \/ wk[w].pc \in {"exc_log", "exc_status"} /\ wk[w].exc = SaveError

\* this step is the failed write of worker w's run (worker.py 213)
WritesFailed(w) ==
    /\ wk[w].pc = "exc_status"
    /\ wk'[w].pc = "idle"

\* C26: a run writes exactly one terminal status: a run that has written
\* completed never afterwards writes failed, also when storing the result
\* document fails after the completed write.
C26_NoFailedAfterCompleted ==
    [][\A w \in Workers : HasWrittenCompleted(w) => ~WritesFailed(w)]_vars

\* C27: a job record carries an error string only while its status is failed: a
\* record that is uploading, queued, processing or completed has no error,
\* also for a case that failed once and was analysed again.
C27_ErrorOnlyWhileFailed ==
    \A i \in DOMAIN jobs : jobs[i].error # "" => jobs[i].status = "failed"

\* this step is a create_case call that succeeds
CreateSucceeds ==
    /\ Len(jobs') = Len(jobs) + 1
    /\ resp'.op = "create"
    /\ resp'.code = 200

\* C28: two successful create_case calls for the same device, also within the
\* same second, return distinct case ids and use distinct case directories: a
\* successful call creates a directory that did not exist and the only record
\* of its (device, case id), with status uploading and file_count 0.
C28_CreatedCasesAreDistinct ==
    [][CreateSucceeds
       => LET new == jobs'[Len(jobs')]
              s   == <<new.device_id, new.case_id>>
          IN  /\ s \notin inputsDir
              /\ \A i \in 1..Len(jobs) :
                    <<jobs[i].device_id, jobs[i].case_id>> # s
              /\ new.status = "uploading"
              /\ new.file_count = 0]_vars

\* C29: for every section of a completed case, report.html and
\* analysis_results.json describe the same measurements: the same number of
\* rows in the same order, judged with the same tolerance and carrying the same
\* verdict, for any configured num_of_HC_masks.
C29_ReportAndDocumentAgree ==
    (xout.done /\ xout.html.table.err = "")
    => /\ Len(xout.html.table.rows) = Len(xout.json.results)
       /\ xout.html.tolerance = xout.json.tolerance
       /\ \A i \in DOMAIN xout.html.table.rows :
             i \in DOMAIN xout.json.results
             => /\ xout.html.table.rows[i].label = xout.json.results[i].id
                /\ (xout.html.table.rows[i].pass_fail = "Pass")
                   <=> xout.json.results[i].passed

\* C30: every job record with status completed has its result_dir set, the
\* directory holds 3.analysis/report.html and 3.analysis/analysis_results.json,
\* and get_job_result answers neither "Result not found" nor "Report file
\* not found" for any job (no case is deleted).
C30_CompletedHasItsReport ==
    /\ \A i \in 1..Len(jobs) :
          jobs[i].status = "completed"
          => /\ jobs[i].result_dir # NoSlot
             /\ jobs[i].result_dir \in inputsDir
             /\ jobs[i].result_dir \in reports
    /\ \A j \in CaseIds :
          get_job_result(jobs, inputsDir, reports, j).detail
             \notin {"Result not found", "Report file not found"}

\* a completed record for which get_job_result answers 200
C30_Witness ==
    \E i \in 1..Len(jobs) :
       /\ jobs[i].status = "completed"
       /\ get_job_result(jobs, inputsDir, reports, jobs[i].job_id).code = 200

====
